---------------------------- MODULE Spec2Model ----------------------------
(***************************************************************************)
(* A model of the pmxt unification layer: the token-bucket Throttler, the  *)
(* Polymarket realtime channel (PolymarketWebSocket) and the Baozi         *)
(* realtime channel (BaoziWebSocket).  Each component is an object of its  *)
(* own; a specification below runs one component (or two side by side)     *)
(* and leaves the variables of the others untouched.                       *)
(***************************************************************************)
EXTENDS Integers, Sequences, FiniteSets, TLC

(***************************************************************************)
(* Bounds of the model.                                                    *)
(***************************************************************************)
MaxCalls == 3          \* throttle() calls in one behaviour
MaxCost == 2           \* cost of one throttle() call, 0..MaxCost tokens
MaxCapacity == 2       \* config.capacity, 0..MaxCapacity tokens
MaxRefillMs == 2       \* 1 / config.refillRate, 1..MaxRefillMs ms per token
MaxDelay == 2          \* config.delay, 1..MaxDelay ms
MaxWatchers == 2       \* watch calls in one behaviour, per channel
MaxEvents == 2         \* vendor events handled in one behaviour, per channel
MaxCloses == 2         \* close() calls completed in one behaviour, per channel
MaxClosers == 2        \* close() calls in flight at once (BaoziWebSocket)
MaxPrice == 2          \* prices of order-book levels, 1..MaxPrice
MaxSize == 2           \* sizes of order-book levels, 1..MaxSize (0 in a delta removes)
MaxLevels == 2         \* levels on one side of a book event
MaxChanges == 2        \* entries of price_changes in one price-change event
MaxCallers == 3        \* loadMarkets / fetchMarket calls in one behaviour
MaxKxCalls == 2        \* Kalshi fetchMarkets calls in one behaviour
MaxTicks == 3          \* the clock of the Kalshi cache runs 0..MaxTicks half TTLs
MaxLimit == 2          \* params.limit, 1..MaxLimit (0: not given)
MaxOffset == 1         \* params.offset, 0..MaxOffset
BulkMarkets == 2500    \* nested markets of one event of the bulk vendor

(***************************************************************************)
(* State.  A behaviour runs one component: the Throttler under            *)
(* SpecThrottler, one adapter's realtime channel under SpecRealtime        *)
(* (`adapter` says which one the program constructed).                     *)
(***************************************************************************)
\* Throttler, src/core/src/exchanges/kalshi-demo/index.ts lines 29-36
VARIABLES
    refillMs,      \* 1 / this.refillRate
    capacity,      \* this.capacity (tokens)
    delay,         \* this.delay (ms)
    tokens,        \* this.tokens * refillMs
    queue,         \* this.queue: <<[id, cost]>>, id = the call's arrival number
    running,       \* this.running
    hasTimestamp,  \* this.lastTimestamp > 0
    elapsed,       \* Date.now() - this.lastTimestamp, saturated
    sleeping,      \* loop() is suspended in `await this.sleep(this.delay)`
    calls,         \* number of throttle() calls made so far
    grants,        \* history: the calls resolved, in the order of head.resolve(); each
                   \* with the balance before its debit, the ms since the grant
                   \* before it (saturated) and the queue length it was taken from
    sinceGrant,    \* ms since the last head.resolve(), saturated at refillMs
    loops,         \* history: the invocations of loop() that have not returned
    started        \* history: the invocations of loop() made so far

thVars == <<refillMs, capacity, delay, tokens, queue, running, hasTimestamp,
            elapsed, sleeping, calls, grants, sinceGrant, loops, started>>

VARIABLE adapter       \* "polymarket" or "baozi"

\* PolymarketWebSocket, src/core/src/exchanges/polymarket/websocket.ts lines 34-39
VARIABLES
    pmInit,              \* this.initializationPromise: "none", "loading", "ready", "failed"
    pmEager,             \* the manager registers an id at the call of addSubscriptions
    pmFeed,              \* what the vendor quotes: [prices: the prices of its levels,
                         \* sizes: the largest size, levels: the most levels on one
                         \* side of a book event, changes: the most entries of
                         \* price_changes in one event]
    pmAssets,            \* this.manager.getAssetIds()
    pmWire,              \* ids with a subscription request issued since the last clearState
    pmRequests,          \* id -> addSubscriptions requests issued since the last clearState
    pmCallers,           \* the watch calls, numbered as they are made: w -> [pc, kind, id,
                         \* enqAt, resAt: the events handled when its resolver was
                         \* enqueued, resolved; resCount: times resolved; value: the
                         \* value it was resolved with; cachedAtCall: a book of id was
                         \* cached when the resolver was enqueued; live: the book
                         \* object it was resolved with is the cached one of id;
                         \* held: what that object holds now]
    orderBookResolvers,  \* this.orderBookResolvers: id -> <<w>>
    tradeResolvers,      \* this.tradeResolvers: id -> <<w>>
    orderBooks,          \* this.orderBooks: id -> book or NoBook
    pmEvents,            \* number of vendor events handled
    pmLast,              \* history: the last event handled, [handler, ids: the asset
                         \* ids it names]
    pmClosing,           \* close() is suspended in `await this.manager.clearState()`
    pmCloses             \* close() calls completed

pmVars == <<pmInit, pmEager, pmFeed, pmAssets, pmWire, pmRequests, pmCallers,
            orderBookResolvers, tradeResolvers, orderBooks, pmEvents, pmLast,
            pmClosing, pmCloses>>

\* BaoziWebSocket, src/unnamed/part_003 lines 23-24, and the listeners the
\* Solana connection holds for it
VARIABLES
    bzSubscriptions,     \* this.subscriptions, a Map in insertion order: <<[key, subId]>>
    bzResolvers,         \* this.orderBookResolvers: marketPubkey -> <<w>> (no entry: <<>>)
    bzListeners,         \* the connection's account-change listeners: {[subId, key, outcomeId]}
    bzNextSub,           \* the next subscription id the connection hands out
    bzCallers,           \* the watch calls: w -> [pc, outcomeId, enqAt, resAt, resCount, value, ...]
    bzClosers,           \* the close() calls in flight: c -> [pc, pos: entries iterated,
                         \* exchange: made through BaoziExchange.close]
    bzEvents,            \* number of account-change notifications handled
    bzCloses,            \* close() calls completed
    bzWs                 \* BaoziExchange.ws is set (src/unnamed/part_002 line 65)

bzVars == <<bzSubscriptions, bzResolvers, bzListeners, bzNextSub, bzCallers,
            bzClosers, bzEvents, bzCloses, bzWs>>

\* The market cache of BaseExchange (specification, 4.1; the class is not
\* among the sources) over the adapter of src/unnamed/part_010
VARIABLES
    loadState,             \* "UNLOADED", "LOADING" or "LOADED"
    markets,               \* this.markets: marketId -> market or NoMarket
    marketsBySlug,         \* this.marketsBySlug: slug -> market or NoMarket
    fetchMarketsCallCount, \* calls of the adapter's fetchMarketsImpl
    cacheGen,              \* cache generation: the forced reloads requested
    venue,                 \* the list of markets the venue holds, 1 or 2
    mxFetches,             \* adapter fetches in flight: {[n, kind, gen, params]}
    mxLoad,                \* the in-flight load later callers wait on (0: none)
    mxCallers              \* the calls: c -> [pc, op, on, result, hit]

mxVars == <<loadState, markets, marketsBySlug, fetchMarketsCallCount, cacheGen,
            venue, mxFetches, mxLoad, mxCallers>>

\* Kalshi fetchMarkets, src/core/src/exchanges/kalshi/fetchMarkets.ts lines 8-11,
\* and the calls of fetchMarkets in flight
VARIABLES
    kxVersion,           \* the module in use: "core" (src/core/src/exchanges/kalshi)
                         \* or "legacy" (src/src/exchanges/kalshi)
    kxVendor,            \* what the vendor answers to a page request: "listed",
                         \* "endless", "hollow" (events without markets), "bulk"
    kxParams,            \* the params of the calls: [sort, limit, offset, searchIn],
                         \* limit 0 and searchIn "" when not given
    kxInFlight,          \* the page requests in flight: {[call, cursor]}
    kxNow,               \* Date.now(), in ms since the module was loaded
    globalMarketCache,   \* status -> [items, by: the call that built it] or NoList
    globalSeriesMap,     \* series ticker -> tags, or NoSeriesMap (null)
    lastCacheTime,       \* status -> ms (0: no entry)
    kxStoredAt,          \* history: status -> kxNow when its list was stored (-1: none)
    kxRequests,          \* network requests issued so far
    kxCalls              \* the calls of fetchMarkets: c -> [pc, path, status, start: the
                         \* `now` of its fetchAllActiveMarkets, events, cursor, page,
                         \* total, series: the state of seriesMapPromise, all: what
                         \* fetchAllActiveMarkets returned, hit, result, sent: requests
                         \* it issued, asked: page requests it issued, primaryFailed,
                         \* enrichFailed, fellBack]

kxVars == <<kxVersion, kxVendor, kxParams, kxInFlight, kxNow, globalMarketCache, globalSeriesMap, lastCacheTime,
            kxStoredAt, kxRequests, kxCalls>>

\* The Baozi adapter's decoding and mapping of on-chain accounts
\* (src/core/src/exchanges/baozi/utils.ts), the order books built from them
\* (src/core/src/exchanges/baozi/fetchTrades.ts lines 25-51 and
\* src/unnamed/part_003 lines 33-61) and the private calls of an exchange
\* instance (src/unnamed/part_002).
VARIABLES
    bmAccount,           \* the decoded market account: a BaoziMarket, a
                         \* BaoziRaceMarket, or NoAccount
    bmUnified,           \* what the mapper returned last, or NoMarket
    bmBook,              \* the order book delivered last: [via, outcomeId, bids,
                         \* asks], NoBook, or [via, error]
    brBuf,               \* BorshReader.buf, a sequence of bytes
    brOffset,            \* BorshReader.offset
    brLog,               \* history: the reads called: [op, len: its argument,
                         \* at: the offset before it, outcome, value]
    auExchange,          \* the exchange class: "baozi" or "kalshi"
    auCredentials,       \* the credentials given to the constructor
    auRequests,          \* network and RPC requests issued so far
    auLog                \* history: the private calls made: [op, outcome, sent]

bxVars == <<bmAccount, bmUnified, bmBook, brBuf, brOffset, brLog,
            auExchange, auCredentials, auRequests, auLog>>

vars == <<thVars, adapter, pmVars, bzVars, mxVars, kxVars, bxVars>>

ThFrame == UNCHANGED <<adapter, pmVars, bzVars, mxVars, kxVars, bxVars>>
PmFrame == UNCHANGED <<thVars, bzVars, mxVars, kxVars, bxVars>>
BzFrame == UNCHANGED <<thVars, pmVars, mxVars, kxVars, bxVars>>
MxFrame == UNCHANGED <<thVars, adapter, pmVars, bzVars, kxVars, bxVars>>
KxFrame == UNCHANGED <<thVars, adapter, pmVars, bzVars, mxVars, bxVars>>
BxFrame == UNCHANGED <<thVars, adapter, pmVars, bzVars, mxVars, kxVars>>

Min(a, b) == IF a <= b THEN a ELSE b
Max(a, b) == IF a >= b THEN a ELSE b

(***************************************************************************)
(* Throttler (src/core/src/exchanges/kalshi-demo/index.ts, 28-82).         *)
(*                                                                         *)
(* Time is in ms.  refillRate is 1/refillMs tokens per ms, and the token   *)
(* balance is kept in units of 1/refillMs token (the amount one ms         *)
(* refills), so that `tokens + elapsed * refillRate` is tokens + elapsed   *)
(* and a cost of c tokens is c * refillMs units: integer arithmetic is     *)
(* exact.                                                                  *)
(*                                                                         *)
(* The code reads the clock only as `lastTimestamp > 0` and as             *)
(* `now - lastTimestamp`.  hasTimestamp is the first, elapsed the second;  *)
(* elapsed saturates at ElapsedCap, from where on the refill is clamped to *)
(* capacity whatever the balance was, so the saturation loses nothing.     *)
(***************************************************************************)
\* The largest deficit is MaxCost tokens, so after this many ms the balance is at capacity.
ElapsedCap == Max(delay, (capacity + MaxCost) * refillMs)

\* line 63: Math.min(this.tokens + elapsed * this.refillRate, this.capacity)
RefillNoClamp(tk, el) == tk + el
Refill(tk, el) == Min(tk + el, capacity * refillMs)

\* line 68: if (this.tokens >= 0)
CanPayCost(tk, cost) == tk >= cost * refillMs
CanPay(tk, cost) == tk >= 0

\* line 69: this.tokens -= head.cost
DebitTwice(tk, cost) == tk - 2 * cost * refillMs
Debit(tk, cost) == tk - cost * refillMs

\* line 67: const head = this.queue[0]
HeadLast(q) == q[Len(q)]
HeadOf(q) == q[1]

\* One iteration of the while loop, lines 60-74, from loop state s.
LoopIter(s) ==
    LET tk == IF s.hasTimestamp THEN Refill(s.tokens, s.elapsed) ELSE s.tokens
        head == HeadOf(s.queue)
    IN  IF CanPay(tk, head.cost)
        THEN [s EXCEPT !.tokens = Debit(tk, head.cost),
                       !.hasTimestamp = TRUE,
                       !.elapsed = 0,
                       !.grants = Append(@, [id |-> head.id, cost |-> head.cost,
                                             before |-> tk, gap |-> s.sinceGrant,
                                             qlen |-> Len(s.queue)]),
                       !.sinceGrant = 0,
                       !.queue = Tail(@)]
        ELSE [s EXCEPT !.tokens = tk,
                       !.hasTimestamp = TRUE,
                       !.elapsed = 0,
                       !.sleeping = TRUE]

\* loop(), lines 58-77, run from the top of the while loop to its next
\* suspension (the sleep) or to its end.
RECURSIVE RunLoop(_)
RunLoop(s) ==
    IF s.queue = <<>>
    THEN [s EXCEPT !.running = FALSE, !.loops = @ - 1]
    ELSE LET n == LoopIter(s)
         IN  IF n.sleeping THEN n ELSE RunLoop(n)

LoopState ==
    [tokens |-> tokens, queue |-> queue, running |-> running,
     hasTimestamp |-> hasTimestamp, elapsed |-> elapsed, sleeping |-> FALSE,
     grants |-> grants, sinceGrant |-> sinceGrant, loops |-> loops]

SetLoopState(n) ==
    /\ tokens' = n.tokens
    /\ queue' = n.queue
    /\ running' = n.running
    /\ hasTimestamp' = n.hasTimestamp
    /\ elapsed' = n.elapsed
    /\ sleeping' = n.sleeping
    /\ grants' = n.grants
    /\ sinceGrant' = n.sinceGrant
    /\ loops' = n.loops

ThInit ==
    /\ refillMs \in 1..MaxRefillMs
    /\ capacity \in 0..MaxCapacity
    /\ delay \in 1..MaxDelay
    /\ tokens = 0
    /\ queue = <<>>
    /\ running = FALSE
    /\ hasTimestamp = FALSE
    /\ elapsed = 0
    /\ sleeping = FALSE
    /\ calls = 0
    /\ grants = <<>>
    /\ sinceGrant = refillMs
    /\ loops = 0
    /\ started = 0

\* line 51: if (!this.running)
StartsLoopAlways(isRunning) == TRUE
StartsLoop(isRunning) == ~isRunning

\* throttle(cost), lines 48-56: push, and start the loop when none runs; the
\* loop then runs synchronously up to its first sleep.
Throttle(cost) ==
    /\ calls < MaxCalls
    /\ calls' = calls + 1
    /\ LET q == Append(queue, [id |-> calls + 1, cost |-> cost])
       IN  IF StartsLoop(running)
           THEN /\ SetLoopState(RunLoop([LoopState EXCEPT !.queue = q,
                                                          !.running = TRUE,
                                                          !.loops = @ + 1]))
                /\ started' = started + 1
           ELSE /\ queue' = q
                /\ UNCHANGED <<tokens, running, hasTimestamp, elapsed, sleeping,
                               grants, sinceGrant, loops, started>>
    /\ UNCHANGED <<refillMs, capacity, delay>>
    /\ ThFrame

\* The timer of sleep(delay), lines 73 and 79-81, fires no earlier than delay
\* ms after it was set; the loop resumes at the top of the while.
TimerFire ==
    /\ sleeping
    /\ elapsed >= delay
    /\ SetLoopState(RunLoop(LoopState))
    /\ UNCHANGED <<refillMs, capacity, delay, calls, started>>
    /\ ThFrame

\* One ms passes.
Tick ==
    /\ elapsed' = IF hasTimestamp THEN Min(elapsed + 1, ElapsedCap) ELSE elapsed
    /\ sinceGrant' = Min(sinceGrant + 1, refillMs)
    /\ UNCHANGED <<refillMs, capacity, delay, tokens, queue, running,
                   hasTimestamp, sleeping, calls, grants, loops, started>>
    /\ ThFrame

ThNext ==
    \/ \E cost \in 0..MaxCost : Throttle(cost)
    \/ TimerFire
    \/ Tick

(***************************************************************************)
(* PolymarketWebSocket (src/core/src/exchanges/polymarket/websocket.ts).   *)
(*                                                                         *)
(* The vendor manager (WSSubscriptionManager) is outside the repository:   *)
(* the model keeps what the code observes of it.  pmAssets is what         *)
(* getAssetIds() returns, pmWire the ids a subscription request was issued *)
(* for (the ids the vendor may push events for).  Whether an id shows in   *)
(* getAssetIds() as soon as addSubscriptions is called, or only once it    *)
(* has completed, is the manager's choice: pmEager.                        *)
(***************************************************************************)
AssetIds == {"a", "b"}
Watchers == 1..MaxWatchers
NoBook == [absent |-> TRUE]
NoValue == [none |-> TRUE]
\* The levels of a book event: {price, size}.
Levels == [price : pmFeed.prices, size : 1..pmFeed.sizes]

\* The price and size of a last-trade-price event.
TradePayloads == [price : pmFeed.prices, size : {pmFeed.sizes}]

\* The bids or the asks of a book event, as the vendor sends them: in any
\* order, one level per price.
SnapshotSides ==
    UNION { { side \in [1..n -> Levels] :
                \A i, j \in 1..n : side[i].price = side[j].price => i = j }
            : n \in 0..pmFeed.levels }

\* The entries of price_changes: size 0 removes the level.
Changes == [id : AssetIds, side : {"BUY", "SELL"}, price : pmFeed.prices,
            size : 0..pmFeed.sizes]

\* price_changes of one event.
ChangeSeqs == UNION { [1..n -> Changes] : n \in 1..pmFeed.changes }

IdleCaller == [pc |-> "idle", kind |-> "book", id |-> "a", enqAt |-> 0,
               resAt |-> 0, resCount |-> 0, value |-> NoValue, cachedAtCall |-> FALSE,
               live |-> FALSE, held |-> NoValue]

\* The comparators of lines 136, 184 (b.price - a.price) and 141, 186
\* (a.price - b.price): x goes before y.
Before(x, y, desc) == IF desc THEN x.price > y.price ELSE x.price < y.price

\* Array.prototype.sort is stable: insertion of x into a sorted sequence,
\* after the elements that compare equal to it.
RECURSIVE InsertBy(_, _, _)
InsertBy(x, sorted, desc) ==
    IF sorted = <<>> THEN <<x>>
    ELSE IF Before(x, Head(sorted), desc) THEN <<x>> \o sorted
         ELSE <<Head(sorted)>> \o InsertBy(x, Tail(sorted), desc)

RECURSIVE SortBy(_, _)
SortBy(seq, desc) ==
    IF seq = <<>> THEN <<>>
    ELSE InsertBy(seq[Len(seq)], SortBy(SubSeq(seq, 1, Len(seq) - 1), desc), desc)

SortBids(levels) == SortBy(levels, TRUE)
SortAsks(levels) == SortBy(levels, FALSE)

\* lines 104-109 and 122-127: the executor of the returned promise pushes
\* {resolve, reject} on the list of id.
Enqueue(resolvers, id, w) == [resolvers EXCEPT ![id] = Append(@, w)]

\* r.resolve(value) for every resolver of list ws.
ResolveCallers(callers, ws, value, at) ==
    [w \in DOMAIN callers |->
        IF \E i \in 1..Len(ws) : ws[i] = w
        THEN [callers[w] EXCEPT !.pc = "resolved", !.resAt = at,
                                !.resCount = @ + 1, !.value = value]
        ELSE callers[w]]

\* lines 218 and 210: this.orderBookResolvers.set(id, []) after the forEach.
KeepResolvers(resolvers, id) == resolvers
ClearResolvers(resolvers, id) == [resolvers EXCEPT ![id] = <<>>]

PmInit ==
    /\ pmInit = "none"
    /\ pmEager \in BOOLEAN
    /\ pmFeed \in [prices : {1..n : n \in 1..MaxPrice}, sizes : 1..MaxSize,
                  levels : 0..MaxLevels, changes : 1..MaxChanges]
    /\ pmAssets = {}
    /\ pmWire = {}
    /\ pmRequests = [id \in AssetIds |-> 0]
    /\ pmCallers = [w \in Watchers |-> IdleCaller]
    /\ orderBookResolvers = [id \in AssetIds |-> <<>>]
    /\ tradeResolvers = [id \in AssetIds |-> <<>>]
    /\ orderBooks = [id \in AssetIds |-> NoBook]
    /\ pmEvents = 0
    /\ pmLast = [handler |-> "none", ids |-> {}]
    /\ pmClosing = FALSE
    /\ pmCloses = 0

\* The promise of a watch call gets its resolver: lines 104-109, 122-127.
PmEnqueue(w, kind, id) ==
    /\ pmCallers' = [pmCallers EXCEPT
           ![w].pc = "pending", ![w].enqAt = pmEvents,
           ![w].cachedAtCall = (kind = "book" /\ orderBooks[id] # NoBook)]
    /\ IF kind = "book"
       THEN /\ orderBookResolvers' = Enqueue(orderBookResolvers, id, w)
            /\ UNCHANGED tradeResolvers
       ELSE /\ tradeResolvers' = Enqueue(tradeResolvers, id, w)
            /\ UNCHANGED orderBookResolvers

\* watchOrderBook(id) / watchTrades(id) up to `await this.ensureInitialized()`,
\* lines 94-95, 112-113 and 45-92: the first call starts the import.
PmWatchCall(w, kind, id) ==
    /\ adapter = "polymarket" /\ UNCHANGED adapter
    /\ pmCallers[w].pc = "idle"
    /\ \A v \in 1..w - 1 : pmCallers[v].pc # "idle"
    /\ pmCallers' = [pmCallers EXCEPT ![w].pc = "init", ![w].kind = kind, ![w].id = id]
    /\ pmInit' = IF pmInit = "none" THEN "loading" ELSE pmInit
    /\ UNCHANGED <<pmEager, pmFeed, pmAssets, pmWire, pmRequests, orderBookResolvers,
                   tradeResolvers, orderBooks, pmEvents, pmLast, pmClosing, pmCloses>>
    /\ PmFrame

\* The dynamic import resolves and the manager is constructed, lines 51-78.
PmImportDone ==
    /\ adapter = "polymarket" /\ UNCHANGED adapter
    /\ pmInit = "loading"
    /\ pmInit' = "ready"
    /\ UNCHANGED <<pmEager, pmFeed, pmAssets, pmWire, pmRequests, pmCallers,
                   orderBookResolvers, tradeResolvers, orderBooks, pmEvents, pmLast,
                   pmClosing, pmCloses>>
    /\ PmFrame

\* The dynamic import fails, lines 79-88: the promise is rejected for good.
PmImportFail ==
    /\ adapter = "polymarket" /\ UNCHANGED adapter
    /\ pmInit = "loading"
    /\ pmInit' = "failed"
    /\ UNCHANGED <<pmEager, pmFeed, pmAssets, pmWire, pmRequests, pmCallers,
                   orderBookResolvers, tradeResolvers, orderBooks, pmEvents, pmLast,
                   pmClosing, pmCloses>>
    /\ PmFrame

\* A watch call resumes after ensureInitialized, lines 97-109 and 115-127:
\* it reads getAssetIds() and either issues addSubscriptions and suspends,
\* or enqueues its resolver.
PmWatchResume(w) ==
    /\ adapter = "polymarket" /\ UNCHANGED adapter
    /\ pmCallers[w].pc = "init"
    /\ pmInit \in {"ready", "failed"}
    /\ LET id == pmCallers[w].id
           kind == pmCallers[w].kind
       IN  IF pmInit = "failed"
           THEN /\ pmCallers' = [pmCallers EXCEPT ![w].pc = "failed"]
                /\ UNCHANGED <<pmAssets, pmWire, pmRequests, orderBookResolvers,
                               tradeResolvers>>
           ELSE IF id \notin pmAssets
           THEN /\ pmCallers' = [pmCallers EXCEPT ![w].pc = "subscribing"]
                /\ pmRequests' = [pmRequests EXCEPT ![id] = @ + 1]
                /\ pmWire' = pmWire \cup {id}
                /\ pmAssets' = IF pmEager THEN pmAssets \cup {id} ELSE pmAssets
                /\ UNCHANGED <<orderBookResolvers, tradeResolvers>>
           ELSE /\ PmEnqueue(w, kind, id)
                /\ UNCHANGED <<pmAssets, pmWire, pmRequests>>
    /\ UNCHANGED <<pmInit, pmEager, pmFeed, orderBooks, pmEvents, pmLast, pmClosing, pmCloses>>
    /\ PmFrame

\* addSubscriptions completes, lines 100 and 118; the call enqueues its resolver.
PmSubscribed(w) ==
    /\ adapter = "polymarket" /\ UNCHANGED adapter
    /\ pmCallers[w].pc = "subscribing"
    /\ pmAssets' = pmAssets \cup {pmCallers[w].id}
    /\ pmWire' = pmWire \cup {pmCallers[w].id}
    /\ PmEnqueue(w, pmCallers[w].kind, pmCallers[w].id)
    /\ UNCHANGED <<pmInit, pmEager, pmFeed, pmRequests, orderBooks, pmEvents, pmLast, pmClosing,
                   pmCloses>>
    /\ PmFrame

\* An OrderBook is an object, and r.resolve(orderBook) hands out a reference
\* to it.  A snapshot makes a new object for id (lines 143-147), so whoever
\* holds the one cached before keeps it as it is; a delta writes into the
\* cached object of id (lines 164-191), which changes under whoever holds it.
HeldAfter(callers, id, book, replaced) ==
    [w \in DOMAIN callers |->
        IF callers[w].live /\ callers[w].id = id
        THEN IF replaced THEN [callers[w] EXCEPT !.live = FALSE]
             ELSE [callers[w] EXCEPT !.held = book]
        ELSE callers[w]]

\* resolvers.forEach((r) => r.resolve(orderBook)), line 217: the callers of
\* list ws get the object that is cached for their id.
Deliver(callers, ws, book, at) ==
    LET resolved == ResolveCallers(callers, ws, book, at)
    IN  [w \in DOMAIN callers |->
            IF \E i \in 1..Len(ws) : ws[i] = w
            THEN [resolved[w] EXCEPT !.live = TRUE, !.held = book]
            ELSE resolved[w]]

\* resolveOrderBook(id, orderBook), lines 214-220, with the callers as the
\* write into the cache left them.
ResolveOrderBook(callers, id, book) ==
    /\ pmCallers' = Deliver(callers, orderBookResolvers[id], book, pmEvents + 1)
    /\ orderBookResolvers' = ClearResolvers(orderBookResolvers, id)

\* line 149: this.orderBooks.set(id, orderBook)
SetBookIfAbsent(books, id, book) ==
    IF books[id] = NoBook THEN [books EXCEPT ![id] = book] ELSE books
SetBook(books, id, book) == [books EXCEPT ![id] = book]

\* handleBookSnapshot(event), lines 130-151.
HandleBookSnapshot(id, bids, asks) ==
    /\ adapter = "polymarket" /\ UNCHANGED adapter
    /\ pmEvents < MaxEvents
    /\ id \in pmWire
    /\ pmEvents' = pmEvents + 1
    /\ pmLast' = [handler |-> "book", ids |-> {id}]
    /\ LET book == [bids |-> SortBids(bids), asks |-> SortAsks(asks)]
       IN  /\ orderBooks' = SetBook(orderBooks, id, book)
           /\ ResolveOrderBook(HeldAfter(pmCallers, id, book, TRUE), id, book)
    /\ UNCHANGED <<pmInit, pmEager, pmFeed, pmAssets, pmWire, pmRequests, tradeResolvers,
                   pmClosing, pmCloses>>
    /\ PmFrame

\* lines 183-187: the re-sort after a push.
NoResort(levels, side) == levels
Resort(levels, side) == IF side = "BUY" THEN SortBids(levels) ELSE SortAsks(levels)

\* line 168: levels.findIndex(l => l.price === price), counted from 1
\* (0: no level has the price).
FindIndexNone(levels, price) == 0
FindIndex(levels, price) ==
    LET hits == {i \in 1..Len(levels) : levels[i].price = price}
    IN  IF hits = {} THEN 0 ELSE CHOOSE i \in hits : \A j \in hits : i <= j

\* The levels of one side after one change, lines 168-189; side is
\* change.side.toUpperCase().
ApplyChange(levels, side, price, size) ==
    LET at == FindIndex(levels, price)
    IN  IF size = 0
        THEN IF at = 0 THEN levels
             ELSE SubSeq(levels, 1, at - 1) \o SubSeq(levels, at + 1, Len(levels))
        ELSE IF at # 0 THEN [levels EXCEPT ![at].size = size]
             ELSE Resort(Append(levels, [price |-> price, size |-> size]), side)

\* One pass of the for loop of handlePriceChange, lines 155-193, from the
\* state s = [books, callers, resolvers].
PriceChangeStep(s, change, at) ==
    LET id == change.id
        old == s.books[id]
    IN  IF old = NoBook
        THEN s
        ELSE LET book == IF change.side = "BUY"
                         THEN [old EXCEPT !.bids =
                                  ApplyChange(@, change.side, change.price, change.size)]
                         ELSE [old EXCEPT !.asks =
                                  ApplyChange(@, change.side, change.price, change.size)]
             IN  [books |-> [s.books EXCEPT ![id] = book],
                  callers |-> Deliver(HeldAfter(s.callers, id, book, FALSE),
                                      s.resolvers[id], book, at),
                  resolvers |-> ClearResolvers(s.resolvers, id)]

\* lines 155 and 159-162: after a change is skipped (`continue`) or applied,
\* the loop goes on with the changes that follow.
RestAfterBreak(skipped, changes) == IF skipped THEN <<>> ELSE Tail(changes)
RestAfter(skipped, changes) == Tail(changes)

RECURSIVE PriceChangeLoop(_, _, _)
PriceChangeLoop(s, changes, at) ==
    IF changes = <<>> THEN s
    ELSE PriceChangeLoop(PriceChangeStep(s, Head(changes), at),
                         RestAfter(s.books[Head(changes).id] = NoBook, changes), at)

\* handlePriceChange(event), lines 153-194.
HandlePriceChange(changes) ==
    /\ adapter = "polymarket" /\ UNCHANGED adapter
    /\ pmEvents < MaxEvents
    /\ \A i \in 1..Len(changes) : changes[i].id \in pmWire
    /\ pmEvents' = pmEvents + 1
    /\ pmLast' = [handler |-> "price", ids |-> {changes[i].id : i \in 1..Len(changes)}]
    /\ LET n == PriceChangeLoop([books |-> orderBooks, callers |-> pmCallers,
                                 resolvers |-> orderBookResolvers],
                                changes, pmEvents + 1)
       IN  /\ orderBooks' = n.books
           /\ pmCallers' = n.callers
           /\ orderBookResolvers' = n.resolvers
    /\ UNCHANGED <<pmInit, pmEager, pmFeed, pmAssets, pmWire, pmRequests, tradeResolvers,
                   pmClosing, pmCloses>>
    /\ PmFrame

\* line 207: const resolvers = this.tradeResolvers.get(id)
PendingTradesAll(resolvers, id) == resolvers["a"] \o resolvers["b"]
PendingTrades(resolvers, id) == resolvers[id]

\* handleTrade(event), lines 196-212.
HandleTrade(id, price, size) ==
    /\ adapter = "polymarket" /\ UNCHANGED adapter
    /\ pmEvents < MaxEvents
    /\ id \in pmWire
    /\ pmEvents' = pmEvents + 1
    /\ pmLast' = [handler |-> "trade", ids |-> {id}]
    /\ pmCallers' = ResolveCallers(pmCallers, PendingTrades(tradeResolvers, id),
                                   <<[price |-> price, amount |-> size]>>, pmEvents + 1)
    /\ tradeResolvers' = ClearResolvers(tradeResolvers, id)
    /\ UNCHANGED <<pmInit, pmEager, pmFeed, pmAssets, pmWire, pmRequests, orderBookResolvers,
                   orderBooks, pmClosing, pmCloses>>
    /\ PmFrame

\* line 223: if (this.manager); the manager is set once the import is done.
HasManagerAlways == TRUE
HasManager == pmInit = "ready"

\* close() up to its await, lines 222-225: with a manager it calls
\* clearState(), which drops the manager's subscriptions; without one it
\* returns at once.
PmCloseCall ==
    /\ adapter = "polymarket" /\ UNCHANGED adapter
    /\ ~pmClosing
    /\ pmCloses < MaxCloses
    /\ IF HasManager
       THEN /\ pmClosing' = TRUE
            /\ pmAssets' = {}
            /\ pmWire' = {}
            /\ pmRequests' = [id \in AssetIds |-> 0]
            /\ UNCHANGED pmCloses
       ELSE /\ pmCloses' = pmCloses + 1
            /\ UNCHANGED <<pmClosing, pmAssets, pmWire, pmRequests>>
    /\ UNCHANGED <<pmInit, pmEager, pmFeed, pmCallers, orderBookResolvers, tradeResolvers,
                   orderBooks, pmEvents, pmLast>>
    /\ PmFrame

\* clearState() completes and close() returns, lines 224-226.
PmCloseReturn ==
    /\ adapter = "polymarket" /\ UNCHANGED adapter
    /\ pmClosing
    /\ pmClosing' = FALSE
    /\ pmCloses' = pmCloses + 1
    /\ UNCHANGED <<pmInit, pmEager, pmFeed, pmAssets, pmWire, pmRequests, pmCallers,
                   orderBookResolvers, tradeResolvers, orderBooks, pmEvents, pmLast>>
    /\ PmFrame

PmNext ==
    \/ \E w \in Watchers, kind \in {"book", "trades"}, id \in AssetIds :
           PmWatchCall(w, kind, id)
    \/ PmImportDone
    \/ PmImportFail
    \/ \E w \in Watchers : PmWatchResume(w)
    \/ \E w \in Watchers : PmSubscribed(w)
    \/ \E id \in AssetIds, bids \in SnapshotSides, asks \in SnapshotSides :
           HandleBookSnapshot(id, bids, asks)
    \/ \E changes \in ChangeSeqs : HandlePriceChange(changes)
    \/ \E id \in AssetIds, t \in TradePayloads : HandleTrade(id, t.price, t.size)
    \/ PmCloseCall
    \/ PmCloseReturn

(***************************************************************************)
(* BaoziWebSocket (src/unnamed/part_003).                                  *)
(*                                                                         *)
(* An outcome id is the market's public key followed by a suffix: "-YES",  *)
(* "-NO", "-<index>" or nothing; it is kept as <<market, suffix>>, and the *)
(* market's public key alone is <<market, "">>.                            *)
(***************************************************************************)
Markets == {"m1", "m2"}
Suffixes == {"", "YES", "NO", "1"}
OutcomeIds == Markets \X Suffixes
MarketKeys == { <<m, "">> : m \in Markets }
Closers == 1..MaxClosers
AccountKinds == {"market", "race", "unknown", "corrupt"}

\* line 27: outcomeId.replace(/-YES$|-NO$|-\d+$/, '')
MarketPubkeyBinaryOnly(outcomeId) ==
    IF outcomeId[2] \in {"YES", "NO"} THEN <<outcomeId[1], "">> ELSE outcomeId
MarketPubkeyOf(outcomeId) == <<outcomeId[1], "">>

\* line 30: this.subscriptions.has(marketPubkey)
HasSubscription(key) == \E i \in 1..Len(bzSubscriptions) : bzSubscriptions[i].key = key

BzIdleCaller == [pc |-> "idle", outcomeId |-> <<"m1", "">>, enqAt |-> 0, resAt |-> 0,
                 resCount |-> 0, value |-> NoValue, duringClose |-> FALSE,
                 newSub |-> FALSE]

BzInit ==
    /\ bzSubscriptions = <<>>
    /\ bzResolvers = [k \in OutcomeIds |-> <<>>]
    /\ bzListeners = {}
    /\ bzNextSub = 1
    /\ bzCallers = [w \in Watchers |-> BzIdleCaller]
    /\ bzClosers = [c \in Closers |-> [pc |-> "idle", pos |-> 0, exchange |-> FALSE]]
    /\ bzEvents = 0
    /\ bzCloses = 0
    /\ bzWs = FALSE

\* BaoziExchange.watchOrderBook (src/unnamed/part_002 lines 417-422), which
\* creates the BaoziWebSocket on first use, and watchOrderBook(connection,
\* outcomeId), lines 26-74: no await, so the call runs as one step.  It
\* registers a listener when the market has none and enqueues its resolver.
BzWatchOrderBook(w, outcomeId) ==
    /\ adapter = "baozi" /\ UNCHANGED adapter
    /\ bzCallers[w].pc = "idle"
    /\ \A v \in 1..w - 1 : bzCallers[v].pc # "idle"
    /\ LET key == MarketPubkeyOf(outcomeId)
           fresh == ~HasSubscription(key)
       IN  /\ IF fresh
              THEN /\ bzListeners' = bzListeners \cup
                          {[subId |-> bzNextSub, key |-> key, outcomeId |-> outcomeId]}
                   /\ bzSubscriptions' = Append(bzSubscriptions,
                                                [key |-> key, subId |-> bzNextSub])
                   /\ bzNextSub' = bzNextSub + 1
              ELSE UNCHANGED <<bzListeners, bzSubscriptions, bzNextSub>>
           /\ bzResolvers' = Enqueue(bzResolvers, key, w)
           /\ bzCallers' = [bzCallers EXCEPT
                  ![w] = [@ EXCEPT !.pc = "pending", !.outcomeId = outcomeId,
                                   !.enqAt = bzEvents,
                                   !.duringClose = \E c \in Closers :
                                                       bzClosers[c].pc = "removing",
                                   !.newSub = fresh]]
    /\ bzWs' = TRUE
    /\ UNCHANGED <<bzClosers, bzEvents, bzCloses>>
    /\ BzFrame

\* The outcome ids mapBooleanToUnified / mapRaceToUnified give the market.
OutcomesOfAccount(key, kind) ==
    IF kind = "market" THEN {<<key[1], "YES">>, <<key[1], "NO">>}
    ELSE IF kind = "race" THEN {<<key[1], "0">>, <<key[1], "1">>}
    ELSE {}

\* The account-change callback of listener l, lines 33-62, and
\* resolveOrderBook, lines 76-84.  An account that is neither kind of market
\* or does not parse resolves nothing.
BzAccountChange(l, kind) ==
    /\ adapter = "baozi" /\ UNCHANGED adapter
    /\ l \in bzListeners
    /\ bzEvents < MaxEvents
    /\ bzEvents' = bzEvents + 1
    /\ IF kind \in {"market", "race"}
       THEN LET book == [forOutcome |-> l.outcomeId,
                         found |-> l.outcomeId \in OutcomesOfAccount(l.key, kind)]
            IN  /\ bzCallers' = ResolveCallers(bzCallers, bzResolvers[l.key], book,
                                               bzEvents + 1)
                /\ bzResolvers' = ClearResolvers(bzResolvers, l.key)
       ELSE UNCHANGED <<bzCallers, bzResolvers>>
    /\ UNCHANGED <<bzSubscriptions, bzListeners, bzNextSub, bzClosers, bzCloses, bzWs>>
    /\ BzFrame

\* r.reject(...) for every resolver of every list, lines 93-97.
RejectAll(callers, resolvers) ==
    [w \in DOMAIN callers |->
        IF \E k \in DOMAIN resolvers : \E i \in 1..Len(resolvers[k]) : resolvers[k][i] = w
        THEN [callers[w] EXCEPT !.pc = IF @ = "pending" THEN "rejected" ELSE @]
        ELSE callers[w]]

\* The end of close(), lines 90-98: subscriptions.clear(), reject every
\* pending resolver, orderBookResolvers.clear().  Clearing a Map empties its
\* entry list, so every iterator over it continues with the entries that
\* are added afterwards.  BaoziExchange.close then drops its socket
\* (src/unnamed/part_002 line 431).
BzCloseFinishNoReject(c, exchange) ==
    /\ bzSubscriptions' = <<>>
    /\ bzClosers' = [d \in Closers |->
                         [pc |-> IF d = c THEN "idle" ELSE bzClosers[d].pc,
                          pos |-> 0,
                          exchange |-> d # c /\ bzClosers[d].exchange]]
    /\ bzCloses' = bzCloses + 1
    /\ bzWs' = (bzWs /\ ~exchange)
    /\ UNCHANGED <<bzCallers, bzResolvers>>
BzCloseFinish(c, exchange) ==
    /\ bzSubscriptions' = <<>>
    /\ bzClosers' = [d \in Closers |->
                         [pc |-> IF d = c THEN "idle" ELSE bzClosers[d].pc,
                          pos |-> 0,
                          exchange |-> d # c /\ bzClosers[d].exchange]]
    /\ bzCloses' = bzCloses + 1
    /\ bzWs' = (bzWs /\ ~exchange)
    /\ bzCallers' = RejectAll(bzCallers, bzResolvers)
    /\ bzResolvers' = [k \in OutcomeIds |-> <<>>]

\* One turn of `for (const [, subId] of this.subscriptions)`, lines 87-89:
\* a Map iterator is live, it visits the entries added while it runs.  With
\* an entry left, removeAccountChangeListener(subId) is called (the
\* connection drops the callback) and close() suspends; with none, close()
\* runs to its end.
BzCloseTurn(c, exchange) ==
    LET pos == bzClosers[c].pos
    IN  IF pos < Len(bzSubscriptions)
        THEN /\ bzListeners' = {l \in bzListeners :
                                   l.subId # bzSubscriptions[pos + 1].subId}
             /\ bzClosers' = [bzClosers EXCEPT ![c] = [pc |-> "removing", pos |-> pos + 1,
                                                       exchange |-> exchange]]
             /\ UNCHANGED <<bzSubscriptions, bzCallers, bzResolvers, bzCloses, bzWs>>
        ELSE /\ BzCloseFinish(c, exchange)
             /\ UNCHANGED bzListeners

\* src/unnamed/part_002 line 429: if (this.ws)
HasWs == bzWs

\* close(connection) is called, line 86: on the socket itself, or through
\* BaoziExchange.close() (src/unnamed/part_002 lines 428-433), which returns
\* at once when the exchange has no socket.
BzCloseCall(c, exchange) ==
    /\ adapter = "baozi" /\ UNCHANGED adapter
    /\ bzClosers[c].pc = "idle"
    /\ bzCloses + Cardinality({d \in Closers : bzClosers[d].pc = "removing"}) < MaxCloses
    /\ IF exchange => HasWs
       THEN BzCloseTurn(c, exchange)
       ELSE /\ bzCloses' = bzCloses + 1
            /\ UNCHANGED <<bzSubscriptions, bzResolvers, bzListeners, bzCallers,
                           bzClosers, bzWs>>
    /\ UNCHANGED <<bzNextSub, bzEvents>>
    /\ BzFrame

\* removeAccountChangeListener completes, line 88; the loop goes on.
BzRemoved(c) ==
    /\ adapter = "baozi" /\ UNCHANGED adapter
    /\ bzClosers[c].pc = "removing"
    /\ BzCloseTurn(c, bzClosers[c].exchange)
    /\ UNCHANGED <<bzNextSub, bzEvents>>
    /\ BzFrame

BzNext ==
    \/ \E w \in Watchers, o \in OutcomeIds : BzWatchOrderBook(w, o)
    \/ \E l \in bzListeners, kind \in AccountKinds : BzAccountChange(l, kind)
    \/ \E c \in Closers, exchange \in BOOLEAN : BzCloseCall(c, exchange)
    \/ \E c \in Closers : BzRemoved(c)

(***************************************************************************)
(* BaseExchange: loadMarkets and fetchMarket (specification, 4.1).         *)
(*                                                                         *)
(* A market is [marketId, slug, obj]: slug "" when it declares none, obj   *)
(* the number of the adapter fetch that built the object, so that two      *)
(* fetches of one market are two objects.  The venue holds one of two      *)
(* lists and may move from the first to the second at any time.            *)
(***************************************************************************)
MarketIds == {"m1", "m2", "m3"}
Slugs == {"s1", "s2"}
Callers == 1..MaxCallers
NoMarket == [absent |-> TRUE]
NoParams == [marketId |-> "", slug |-> ""]
Lookups == {[marketId |-> m, slug |-> ""] : m \in MarketIds}
               \cup {[marketId |-> "", slug |-> g] : g \in Slugs}

Venue(v) ==
    IF v = 1
    THEN <<[marketId |-> "m1", slug |-> "s1"], [marketId |-> "m2", slug |-> ""]>>
    ELSE <<[marketId |-> "m2", slug |-> "s2"], [marketId |-> "m3", slug |-> ""]>>

\* The market objects fetch n builds from the venue's records.
Built(list, n) ==
    [i \in 1..Len(list) |->
        [marketId |-> list[i].marketId, slug |-> list[i].slug, obj |-> n]]

\* fetchMarketsImpl(params) of the adapter, src/unnamed/part_010 lines 20-32.
MatchesAny(m, params) == TRUE
Matches(m, params) ==
    /\ params.marketId # "" => m.marketId = params.marketId
    /\ params.slug # "" => m.slug = params.slug
RECURSIVE FetchMarketsImpl(_, _)
FetchMarketsImpl(params, list) ==
    IF list = <<>> THEN <<>>
    ELSE (IF Matches(Head(list), params) THEN <<Head(list)>> ELSE <<>>)
             \o FetchMarketsImpl(params, Tail(list))

\* markets keyed by id: the last market of an id wins.
IndexById(list) ==
    [id \in MarketIds |->
        LET at == {i \in 1..Len(list) : list[i].marketId = id}
        IN  IF at = {} THEN NoMarket
            ELSE list[CHOOSE i \in at : \A j \in at : j <= i]]

\* marketsBySlug, only for the markets that declare a slug.
IndexBySlug(list) ==
    [g \in Slugs |->
        LET at == {i \in 1..Len(list) : list[i].slug = g}
        IN  IF at = {} THEN NoMarket
            ELSE list[CHOOSE i \in at : \A j \in at : j <= i]]

\* loadMarkets: "if LOADED and reload=false, return cached map immediately".
ServesFromCacheAlways(state, reload) == state = "LOADED"
ServesFromCache(state, reload) == state = "LOADED" /\ ~reload

\* "Concurrent callers during LOADING must not each trigger independent
\* fetches": a call without reload waits on the load in flight.
JoinsNever(state, reload) == FALSE
JoinsInFlight(state, reload) == state = "LOADING" /\ ~reload

\* fetchMarket: "If cache is LOADED, attempt a cache hit first (id map, then
\* slug map)".
CacheLookupNone(lookup) == NoMarket
CacheLookup(lookup) ==
    IF loadState # "LOADED" THEN NoMarket
    ELSE IF lookup.marketId # "" /\ markets[lookup.marketId] # NoMarket
         THEN markets[lookup.marketId]
    ELSE IF lookup.slug # "" THEN marketsBySlug[lookup.slug]
    ELSE NoMarket

MxIdleCaller == [pc |-> "idle", op |-> "none", on |-> 0, result |-> NoValue,
                 hit |-> FALSE]

MxInit ==
    /\ loadState = "UNLOADED"
    /\ markets = [id \in MarketIds |-> NoMarket]
    /\ marketsBySlug = [g \in Slugs |-> NoMarket]
    /\ fetchMarketsCallCount = 0
    /\ cacheGen = 0
    /\ venue = 1
    /\ mxFetches = {}
    /\ mxLoad = 0
    /\ mxCallers = [c \in Callers |-> MxIdleCaller]

\* The call of the adapter's fetchMarketsImpl(params) by caller c.
StartFetch(c, op, kind, gen, params) ==
    LET n == fetchMarketsCallCount + 1
    IN  /\ fetchMarketsCallCount' = n
        /\ mxFetches' = mxFetches \cup
               {[n |-> n, kind |-> kind, gen |-> gen, params |-> params]}
        /\ mxCallers' = [mxCallers EXCEPT ![c].pc = "waiting", ![c].op = op,
                                          ![c].on = n]

\* loadMarkets(reload) up to its first suspension.
MxLoadMarkets(c, reload) ==
    /\ mxCallers[c].pc = "idle"
    /\ \A b \in 1..c - 1 : mxCallers[b].pc # "idle"
    /\ IF ServesFromCache(loadState, reload)
       THEN /\ mxCallers' = [mxCallers EXCEPT ![c].pc = "done", ![c].op = "load",
                                              ![c].result = markets, ![c].hit = TRUE]
            /\ UNCHANGED <<loadState, fetchMarketsCallCount, cacheGen, mxFetches,
                           mxLoad>>
       ELSE IF JoinsInFlight(loadState, reload) /\ mxLoad # 0
       THEN /\ mxCallers' = [mxCallers EXCEPT ![c].pc = "waiting", ![c].op = "load",
                                              ![c].on = mxLoad]
            /\ UNCHANGED <<loadState, fetchMarketsCallCount, cacheGen, mxFetches,
                           mxLoad>>
       ELSE /\ cacheGen' = IF reload THEN cacheGen + 1 ELSE cacheGen
            /\ StartFetch(c, "load", "load", cacheGen', NoParams)
            /\ loadState' = "LOADING"
            /\ mxLoad' = fetchMarketsCallCount'
    /\ UNCHANGED <<markets, marketsBySlug, venue>>
    /\ MxFrame

\* fetchMarket(lookup) up to its first suspension.
MxFetchMarket(c, lookup) ==
    /\ mxCallers[c].pc = "idle"
    /\ \A b \in 1..c - 1 : mxCallers[b].pc # "idle"
    /\ IF CacheLookup(lookup) # NoMarket
       THEN /\ mxCallers' = [mxCallers EXCEPT ![c].pc = "done", ![c].op = "market",
                                              ![c].result = CacheLookup(lookup),
                                              ![c].hit = TRUE]
            /\ UNCHANGED <<fetchMarketsCallCount, mxFetches>>
       ELSE StartFetch(c, "market", "market", cacheGen, lookup)
    /\ UNCHANGED <<loadState, markets, marketsBySlug, cacheGen, venue, mxLoad>>
    /\ MxFrame

\* An adapter fetch returns.  A load replaces both maps at once, turns
\* LOADED and returns the new map; a lookup returns the first result, or
\* fails with MarketNotFound when there is none.
MxFetchDone(f) ==
    /\ f \in mxFetches
    /\ mxFetches' = mxFetches \ {f}
    /\ LET list == Built(FetchMarketsImpl(f.params, Venue(venue)), f.n)
           notFound == f.kind = "market" /\ list = <<>>
           out == IF f.kind = "load" THEN IndexById(list)
                  ELSE IF notFound THEN [error |-> "MarketNotFound"] ELSE list[1]
       IN  /\ IF f.kind = "load"
              THEN /\ markets' = IndexById(list)
                   /\ marketsBySlug' = IndexBySlug(list)
                   /\ loadState' = "LOADED"
                   /\ mxLoad' = IF mxLoad = f.n THEN 0 ELSE mxLoad
              ELSE UNCHANGED <<markets, marketsBySlug, loadState, mxLoad>>
           /\ mxCallers' =
                  [c \in Callers |->
                      IF mxCallers[c].pc = "waiting" /\ mxCallers[c].on = f.n
                      THEN [mxCallers[c] EXCEPT
                               !.pc = IF notFound THEN "failed" ELSE "done",
                               !.result = out]
                      ELSE mxCallers[c]]
    /\ UNCHANGED <<fetchMarketsCallCount, cacheGen, venue>>
    /\ MxFrame

\* The venue lists and delists markets.
MxVenueChange ==
    /\ venue = 1
    /\ venue' = 2
    /\ UNCHANGED <<loadState, markets, marketsBySlug, fetchMarketsCallCount, cacheGen,
                   mxFetches, mxLoad, mxCallers>>
    /\ MxFrame

MxNext ==
    \/ \E c \in Callers, reload \in BOOLEAN : MxLoadMarkets(c, reload)
    \/ \E c \in Callers, lookup \in Lookups : MxFetchMarket(c, lookup)
    \/ \E f \in mxFetches : MxFetchDone(f)
    \/ MxVenueChange

(***************************************************************************)
(* Kalshi fetchMarkets (src/core/src/exchanges/kalshi/fetchMarkets.ts, and  *)
(* the earlier module src/src/exchanges/kalshi/fetchMarkets.ts).            *)
(*                                                                         *)
(* A text is the sequence of its characters.  The listed vendor holds two   *)
(* open events on two pages and one closed event followed by an empty       *)
(* page; the other vendors never run out of pages.  Every request the code  *)
(* issues is answered or fails; the answer to a request of the pagination   *)
(* loop and the answer to the series request of the same call arrive in     *)
(* either order.                                                            *)
(***************************************************************************)
CACHE_TTL == 600000
MAX_PAGES == 100
LEGACY_MAX_PAGES == 1000
TargetMarkets == 7500
DefaultLimit == 50
NativeLimit == 20
TickMs == CACHE_TTL \div 2

KxCallIds == 1..MaxKxCalls
Statuses == {"open", "closed"}
Paths == {"list", "slug", "query"}
NoList == [absent |-> TRUE]
NoSeriesMap == [absent |-> TRUE]
Query == <<"F", "e">>
Slug == "E1"
DefaultParams == [sort |-> "none", limit |-> 0, offset |-> 0, searchIn |-> ""]
SortKeys == {"none", "volume", "liquidity", "newest"}
ParamSets ==
    [sort : SortKeys, limit : 0..MaxLimit, offset : 0..MaxOffset,
     searchIn : {"", "title", "description", "both"}]
Vendors == {"listed", "endless", "hollow", "bulk"}

EventE1 == [event_ticker |-> "E1", series_ticker |-> "S1",
            title |-> <<"f", "E", "d">>, rules |-> <<"c", "p">>,
            tags |-> <<>>, markets |-> <<"K1">>]
EventE2 == [event_ticker |-> "E2", series_ticker |-> "S2",
            title |-> <<"c", "p", "i">>, rules |-> <<"F", "E">>,
            tags |-> <<>>, markets |-> <<"K2", "K3">>]
EventE3 == [event_ticker |-> "E3", series_ticker |-> "S1",
            title |-> <<"f", "e">>, rules |-> <<>>,
            tags |-> <<"own">>, markets |-> <<"K9">>]
\* An event without nested markets, and one with very many.
HollowEvent == [EventE2 EXCEPT !.markets = <<>>]
BulkEvent == [EventE1 EXCEPT !.markets = [i \in 1..BulkMarkets |-> "K1"]]

\* volume_24h, liquidity and close time of the vendor's markets.
Quote(ticker) ==
    IF ticker = "K1" THEN [volume24h |-> 1, liquidity |-> 2, resolutionDate |-> 3]
    ELSE IF ticker = "K2" THEN [volume24h |-> 2, liquidity |-> 2, resolutionDate |-> 1]
    ELSE IF ticker = "K3" THEN [volume24h |-> 1, liquidity |-> 1, resolutionDate |-> 3]
    ELSE [volume24h |-> 0, liquidity |-> 0, resolutionDate |-> 2]

\* The answer of GET events?status=..&cursor=..: [events, cursor].
Page(status, cursor) ==
    IF kxVendor = "endless" THEN [events |-> <<EventE1>>, cursor |-> "more"]
    ELSE IF kxVendor = "hollow" THEN [events |-> <<HollowEvent>>, cursor |-> "more"]
    ELSE IF kxVendor = "bulk" THEN [events |-> <<BulkEvent>>, cursor |-> "more"]
    ELSE IF status = "open"
    THEN IF cursor = "" THEN [events |-> <<EventE1>>, cursor |-> "c1"]
         ELSE [events |-> <<EventE2>>, cursor |-> ""]
    ELSE IF cursor = "" THEN [events |-> <<EventE3>>, cursor |-> "c9"]
         ELSE [events |-> <<>>, cursor |-> ""]

\* The answer of GET series: the registry, of which fetchSeriesMap keeps the
\* series that have tags (lines 23-30).
SeriesList == <<[ticker |-> "S1", tags |-> <<"econ">>], [ticker |-> "S2", tags |-> <<>>]>>
FetchSeriesMap ==
    LET tagged == {i \in 1..Len(SeriesList) : Len(SeriesList[i].tags) > 0}
    IN  [t \in {SeriesList[i].ticker : i \in tagged} |->
            SeriesList[CHOOSE i \in tagged : SeriesList[i].ticker = t].tags]
NoSeries == [t \in {} |-> <<>>]

\* Array.prototype.slice(from, to), from and to not negative.
Slice(list, from, to) == SubSeq(list, from + 1, Min(Len(list), to))

\* The answer of GET markets?q=..&status=..: the vendor's own search.
NativeMarkets(status) ==
    IF status = "open"
    THEN <<[ticker |-> "K1", event_ticker |-> "E1"],
           [ticker |-> "K3", event_ticker |-> "E2"]>>
    ELSE <<[ticker |-> "K9", event_ticker |-> "E3"]>>
\* The vendor returns no more markets than the limit of the request (line 198).
NativeFound(status) ==
    Slice(NativeMarkets(status), 0,
          IF kxParams.limit # 0 THEN kxParams.limit ELSE NativeLimit)
EventIds == {"E1", "E2", "E3"}
EventOf(ticker) ==
    IF ticker = "E1" THEN EventE1 ELSE IF ticker = "E2" THEN EventE2 ELSE EventE3
EventTickers(status) ==
    {NativeFound(status)[i].event_ticker : i \in 1..Len(NativeFound(status))}

\* mapMarketToUnified(event, market) of ./utils.
MapMarketToUnified(event, market) ==
    [marketId |-> market, event |-> event.event_ticker, title |-> event.title,
     description |-> event.rules, tags |-> event.tags,
     volume24h |-> Quote(market).volume24h, liquidity |-> Quote(market).liquidity,
     resolutionDate |-> Quote(market).resolutionDate]

\* Lines 96-100 and 162-171: the series' tags for an event that has none.
Enrich(event, seriesMap) ==
    IF /\ event.series_ticker # ""
       /\ event.series_ticker \in DOMAIN seriesMap
       /\ event.tags = <<>>
    THEN [event EXCEPT !.tags = seriesMap[event.series_ticker]]
    ELSE event

MarketsOfEvent(event) ==
    [i \in 1..Len(event.markets) |-> MapMarketToUnified(event, event.markets[i])]

\* Lines 92-109: the markets of all events, in order.
RECURSIVE AllMarketsOf(_, _)
AllMarketsOf(events, seriesMap) ==
    IF events = <<>> THEN <<>>
    ELSE IF Len(events) = 1 THEN MarketsOfEvent(Enrich(events[1], seriesMap))
    ELSE LET half == Len(events) \div 2
         IN  AllMarketsOf(SubSeq(events, 1, half), seriesMap)
                 \o AllMarketsOf(SubSeq(events, half + 1, Len(events)), seriesMap)

RECURSIVE CountMarkets(_)
CountMarkets(events) ==
    IF events = <<>> THEN 0
    ELSE IF Len(events) = 1 THEN Len(events[1].markets)
    ELSE LET half == Len(events) \div 2
         IN  CountMarkets(SubSeq(events, 1, half))
                 + CountMarkets(SubSeq(events, half + 1, Len(events)))

\* String.prototype.toLowerCase over the alphabet of the texts.
LowerChar(ch) ==
    IF ch = "F" THEN "f" ELSE IF ch = "E" THEN "e" ELSE ch
ToLowerCase(text) == [i \in 1..Len(text) |-> LowerChar(text[i])]

\* String.prototype.includes.
Includes(text, part) ==
    \E i \in 0..Len(text) - Len(part) : SubSeq(text, i + 1, i + Len(part)) = part

\* The comparators of lines 265-271: a sorts before b.
SortsBeforeOrEqual(a, b, key) ==
    IF key = "volume" THEN a.volume24h >= b.volume24h
    ELSE IF key = "liquidity" THEN a.liquidity >= b.liquidity
    ELSE a.resolutionDate >= b.resolutionDate
SortsBefore(a, b, key) ==
    IF key = "volume" THEN a.volume24h > b.volume24h
    ELSE IF key = "liquidity" THEN a.liquidity > b.liquidity
    ELSE a.resolutionDate > b.resolutionDate

\* Array.prototype.sort is stable: x goes after the elements it does not
\* sort before.
RECURSIVE InsertDesc(_, _, _)
InsertDesc(x, sorted, key) ==
    IF sorted = <<>> THEN <<x>>
    ELSE IF SortsBefore(x, Head(sorted), key) THEN <<x>> \o sorted
         ELSE <<Head(sorted)>> \o InsertDesc(x, Tail(sorted), key)

RECURSIVE SortDesc(_, _)
SortDesc(list, key) ==
    IF list = <<>> THEN <<>>
    ELSE InsertDesc(list[Len(list)], SortDesc(SubSeq(list, 1, Len(list) - 1), key),
                    key)

\* line 262: let result = [...markets].  The sort of lines 265-271 works on
\* the copy: the array applyFiltersAndPagination was given is left as it is.
ArgumentSortedInPlace(list, params) ==
    IF params.sort \in {"volume", "liquidity", "newest"}
    THEN SortDesc(list, params.sort) ELSE list
ArgumentAfter(list, params) == list

\* applyFiltersAndPagination (lines 261-278).
ApplyFiltersAndPagination(list, params) ==
    LET sorted == IF params.sort \in {"volume", "liquidity", "newest"}
                  THEN SortDesc(list, params.sort) ELSE list
        limit == IF params.limit # 0 THEN params.limit ELSE DefaultLimit
    IN  Slice(sorted, params.offset, params.offset + limit)

\* The filter of searchMarkets (lines 246-256).
MatchesQuery(m, query, searchIn) ==
    LET titleMatch == Includes(ToLowerCase(m.title), ToLowerCase(query))
        descMatch == Includes(ToLowerCase(m.description), ToLowerCase(query))
        in == IF searchIn = "" THEN "title" ELSE searchIn
    IN  IF in = "title" THEN titleMatch
        ELSE IF in = "description" THEN descMatch
        ELSE titleMatch \/ descMatch

\* searchMarkets (lines 245-259).
SearchMarkets(list, query, params) ==
    ApplyFiltersAndPagination(
        SelectSeq(list, LAMBDA m : MatchesQuery(m, query, params.searchIn)), params)

\* Line 40.
CacheValidForever(status, now) ==
    /\ globalMarketCache[status] # NoList
    /\ globalSeriesMap # NoSeriesMap
CacheValid(status, now) ==
    /\ globalMarketCache[status] # NoList
    /\ globalSeriesMap # NoSeriesMap
    /\ now - lastCacheTime[status] < CACHE_TTL

KxIdleCall == [pc |-> "idle", path |-> "none", status |-> "open", start |-> 0,
               events |-> <<>>, cursor |-> "", page |-> 0, total |-> 0,
               series |-> "none", all |-> NoList, hit |-> FALSE, result |-> <<>>,
               sent |-> 0, asked |-> 0, primaryFailed |-> FALSE, enrichFailed |-> FALSE,
               fellBack |-> FALSE]

KxInit ==
    /\ kxNow = 0
    /\ globalMarketCache = [s \in Statuses |-> NoList]
    /\ globalSeriesMap = NoSeriesMap
    /\ lastCacheTime = [s \in Statuses |-> 0]
    /\ kxStoredAt = [s \in Statuses |-> -1]
    /\ kxRequests = 0
    /\ kxInFlight = {}
    /\ kxCalls = [c \in KxCallIds |-> KxIdleCall]

KxIdle ==
    KxInit /\ kxVersion = "core" /\ kxVendor = "listed" /\ kxParams = DefaultParams

\* What fetchMarkets returns from the list fetchAllActiveMarkets gave it
\* (lines 136 and 144).
ResultOf(r, items) ==
    IF r.fellBack THEN SearchMarkets(items, Query, kxParams)
    ELSE ApplyFiltersAndPagination(items, kxParams)

\* What fetchMarkets leaves of that list, which is the array the cache holds
\* (lines 41 and 112-116): searchMarkets filters it into a new array (line
\* 249), applyFiltersAndPagination is given the array itself (line 144).
CachedAfter(r, items) ==
    IF r.fellBack THEN items ELSE ArgumentAfter(items, kxParams)

\* The page requests in flight that are not of call c.
OthersInFlight(c) == {q \in kxInFlight : q.call # c}

\* axios.get(KALSHI_API_URL, {params: {.., cursor}}) (lines 57-64).
RequestsAhead(c, cursor) ==
    {[call |-> c, cursor |-> cursor], [call |-> c, cursor |-> ""]}
Requests(c, cursor) == {[call |-> c, cursor |-> cursor]}

\* fetchAllActiveMarkets(status) up to its first suspension (lines 36-64): a
\* valid cache entry is returned at once, otherwise the series request and the
\* request of the first page are issued.
EnterFetchAll(c, r, status) ==
    IF CacheValid(status, kxNow)
    THEN /\ kxCalls' = [kxCalls EXCEPT ![c] =
                [r EXCEPT !.pc = "done", !.start = kxNow,
                          !.all = globalMarketCache[status], !.hit = TRUE,
                          !.result = ResultOf(r, globalMarketCache[status].items)]]
         /\ globalMarketCache' =
                [globalMarketCache EXCEPT ![status].items = CachedAfter(r, @)]
         /\ UNCHANGED <<kxRequests, kxInFlight>>
    ELSE /\ kxCalls' = [kxCalls EXCEPT ![c] =
                [r EXCEPT !.pc = "page", !.start = kxNow, !.series = "pending",
                          !.sent = @ + 2, !.asked = 1]]
         /\ kxRequests' = kxRequests + 2
         /\ kxInFlight' = kxInFlight \cup Requests(c, "")
         /\ UNCHANGED globalMarketCache

\* fetchMarkets(params) up to its first suspension: lines 119-144 of the core
\* module, lines 61-67 and 6-29 of the legacy one.
KxFetchMarkets(c, path, status) ==
    /\ kxCalls[c].pc = "idle"
    /\ \A b \in 1..c - 1 : kxCalls[b].pc # "idle"
    /\ kxVersion = "legacy" => path = "list" /\ status = "open"
    /\ LET r == [kxCalls[c] EXCEPT !.path = path, !.status = status]
       IN  IF kxVersion = "legacy"
           THEN /\ kxCalls' = [kxCalls EXCEPT ![c] =
                       [r EXCEPT !.pc = "page", !.start = kxNow, !.sent = 1,
                                 !.asked = 1]]
                /\ kxRequests' = kxRequests + 1
                /\ kxInFlight' = kxInFlight \cup Requests(c, "")
                /\ UNCHANGED globalMarketCache
           ELSE IF path = "list" THEN EnterFetchAll(c, r, status)
           ELSE /\ kxCalls' = [kxCalls EXCEPT ![c] =
                       [r EXCEPT !.pc = IF path = "slug" THEN "slug" ELSE "native",
                                 !.start = kxNow, !.sent = 1]]
                /\ kxRequests' = kxRequests + 1
                /\ UNCHANGED <<kxInFlight, globalMarketCache>>
    /\ UNCHANGED <<kxVersion, kxVendor, kxParams, kxNow, globalSeriesMap,
                   lastCacheTime, kxStoredAt>>
    /\ KxFrame

\* Lines 91-116: build the list, store it and return it.
StoreAndReturn(c, r) ==
    LET list == [items |-> AllMarketsOf(r.events, FetchSeriesMap), by |-> c]
    IN  /\ globalMarketCache' =
               [globalMarketCache EXCEPT
                   ![r.status] = [list EXCEPT !.items = CachedAfter(r, @)]]
        /\ globalSeriesMap' = FetchSeriesMap
        /\ lastCacheTime' = [lastCacheTime EXCEPT ![r.status] = r.start]
        /\ kxStoredAt' = [kxStoredAt EXCEPT ![r.status] = kxNow]
        /\ kxInFlight' = OthersInFlight(c)
        /\ kxCalls' = [kxCalls EXCEPT ![c] =
               [r EXCEPT !.pc = "done", !.series = "ok", !.all = list,
                         !.result = ResultOf(r, list.items)]]

\* A rejection reaches the caller of fetchMarkets (lines 84, 89, 146-148):
\* the code of lines 91-116 is not run.
ThrowsAfterStoring(c, r) ==
    /\ kxCalls' = [kxCalls EXCEPT ![c] = [r EXCEPT !.pc = "failed"]]
    /\ kxInFlight' = OthersInFlight(c)
    /\ globalMarketCache' =
           [globalMarketCache EXCEPT
               ![r.status] = [items |-> AllMarketsOf(r.events, NoSeries), by |-> c]]
    /\ lastCacheTime' = [lastCacheTime EXCEPT ![r.status] = r.start]
    /\ UNCHANGED <<globalSeriesMap, kxStoredAt>>
Throws(c, r) ==
    /\ kxCalls' = [kxCalls EXCEPT ![c] = [r EXCEPT !.pc = "failed"]]
    /\ kxInFlight' = OthersInFlight(c)
    /\ UNCHANGED <<globalMarketCache, globalSeriesMap, lastCacheTime, kxStoredAt>>

\* The pagination loop is left (lines 67, 80, 86); `await seriesMapPromise`.
AfterLoop(c, r) ==
    IF r.series = "ok" THEN StoreAndReturn(c, r)
    ELSE IF r.series = "failed" THEN Throws(c, [r EXCEPT !.enrichFailed = TRUE])
    ELSE /\ kxCalls' = [kxCalls EXCEPT ![c] = [r EXCEPT !.pc = "series"]]
         /\ kxInFlight' = OthersInFlight(c)
         /\ UNCHANGED <<globalMarketCache, globalSeriesMap, lastCacheTime, kxStoredAt>>

\* const limit = params?.limit || 50 (legacy line 62).
LegacyLimit == IF kxParams.limit # 0 THEN kxParams.limit ELSE DefaultLimit

\* The legacy fetchActiveEvents returns; fetchMarkets lines 69-89.
LegacyReturn(c, r) ==
    LET allMarkets == AllMarketsOf(r.events, NoSeries)
        sorted == IF kxParams.sort \in {"volume", "liquidity"}
                  THEN SortDesc(allMarkets, kxParams.sort) ELSE allMarkets
    IN  /\ kxCalls' = [kxCalls EXCEPT ![c] =
               [r EXCEPT !.pc = "done", !.result = Slice(sorted, 0, LegacyLimit)]]
        /\ kxInFlight' = OthersInFlight(c)
        /\ UNCHANGED <<globalMarketCache, globalSeriesMap, lastCacheTime, kxStoredAt>>

\* The loop goes round: the request of the next page is issued.
NextPage(c, r) ==
    /\ kxCalls' = [kxCalls EXCEPT ![c] = [r EXCEPT !.sent = @ + 1, !.asked = @ + 1]]
    /\ kxRequests' = kxRequests + 1
    /\ kxInFlight' = OthersInFlight(c) \cup Requests(c, r.cursor)
    /\ UNCHANGED <<globalMarketCache, globalSeriesMap, lastCacheTime, kxStoredAt>>

\* The loop conditions of line 86 and of legacy line 55.
GoesRoundUncapped(cursor, page, cap) == cursor # ""
GoesRound(cursor, page, cap) == cursor # "" /\ page < cap

\* One iteration of the core loop after its answer arrived (lines 65-86).
CorePage(c, r, resp) ==
    IF resp.events = <<>> THEN AfterLoop(c, r) /\ UNCHANGED kxRequests
    ELSE LET r1 == [r EXCEPT !.events = @ \o resp.events, !.cursor = resp.cursor,
                             !.page = @ + 1,
                             !.total = @ + CountMarkets(resp.events)]
         IN  IF r1.total >= TargetMarkets THEN AfterLoop(c, r1) /\ UNCHANGED kxRequests
             ELSE IF GoesRound(r1.cursor, r1.page, MAX_PAGES) THEN NextPage(c, r1)
             ELSE AfterLoop(c, r1) /\ UNCHANGED kxRequests

\* One iteration of the legacy loop after its answer arrived (lines 30-55).
LegacyPage(c, r, resp) ==
    IF resp.events = <<>> THEN LegacyReturn(c, r) /\ UNCHANGED kxRequests
    ELSE LET r1 == [r EXCEPT !.events = @ \o resp.events,
                             !.total = @ + CountMarkets(resp.events)]
             r2 == [r1 EXCEPT !.cursor = resp.cursor, !.page = @ + 1]
         IN  IF r1.total >= LegacyLimit * 2
             THEN LegacyReturn(c, r1) /\ UNCHANGED kxRequests
             ELSE IF GoesRound(r2.cursor, r2.page, LEGACY_MAX_PAGES)
             THEN NextPage(c, r2)
             ELSE LegacyReturn(c, r2) /\ UNCHANGED kxRequests

\* The request of a page is answered.
KxPageOk(c) ==
    /\ kxCalls[c].pc = "page"
    /\ \E q \in kxInFlight :
           /\ q.call = c
           /\ LET r == kxCalls[c]
                  resp == Page(r.status, q.cursor)
              IN  IF kxVersion = "legacy" THEN LegacyPage(c, r, resp)
                  ELSE CorePage(c, r, resp)
    /\ UNCHANGED <<kxVersion, kxVendor, kxParams, kxNow>>
    /\ KxFrame

\* The request of a page fails: core lines 83-85 throw, legacy lines 51-54
\* log and leave the loop.
KxPageFail(c) ==
    /\ kxCalls[c].pc = "page"
    /\ LET r == [kxCalls[c] EXCEPT !.primaryFailed = TRUE]
       IN  IF kxVersion = "legacy" THEN LegacyReturn(c, r) ELSE Throws(c, r)
    /\ UNCHANGED <<kxVersion, kxVendor, kxParams, kxNow, kxRequests>>
    /\ KxFrame

\* The series request is answered (lines 22-30).
KxSeriesOk(c) ==
    /\ kxCalls[c].pc \in {"page", "series"}
    /\ kxCalls[c].series = "pending"
    /\ IF kxCalls[c].pc = "series" THEN StoreAndReturn(c, kxCalls[c])
       ELSE /\ kxCalls' = [kxCalls EXCEPT ![c].series = "ok"]
            /\ UNCHANGED <<globalMarketCache, globalSeriesMap, lastCacheTime,
                           kxStoredAt, kxInFlight>>
    /\ UNCHANGED <<kxVersion, kxVendor, kxParams, kxNow, kxRequests>>
    /\ KxFrame

\* The series request fails: fetchSeriesMap rethrows (lines 31-33).
KxSeriesFail(c) ==
    /\ kxCalls[c].pc \in {"page", "series"}
    /\ kxCalls[c].series = "pending"
    /\ IF kxCalls[c].pc = "series"
       THEN Throws(c, [kxCalls[c] EXCEPT !.series = "failed", !.enrichFailed = TRUE])
       ELSE /\ kxCalls' = [kxCalls EXCEPT ![c].series = "failed"]
            /\ UNCHANGED <<globalMarketCache, globalSeriesMap, lastCacheTime,
                           kxStoredAt, kxInFlight>>
    /\ UNCHANGED <<kxVersion, kxVendor, kxParams, kxNow, kxRequests>>
    /\ KxFrame

\* fetchMarketsBySlug (lines 151-188) from the answer of the event request:
\* a failure rejects; otherwise the series lookup is issued and its failure
\* is ignored.
KxSlugDone(c, eventOk, seriesOk) ==
    /\ kxCalls[c].pc = "slug"
    /\ ~eventOk => seriesOk
    /\ LET r == kxCalls[c]
           event == EventOf(Slug)
           enriched == IF seriesOk THEN Enrich(event, FetchSeriesMap) ELSE event
       IN  IF ~eventOk
           THEN /\ kxCalls' = [kxCalls EXCEPT ![c] =
                       [r EXCEPT !.pc = "failed", !.primaryFailed = TRUE]]
                /\ UNCHANGED kxRequests
           ELSE /\ kxCalls' = [kxCalls EXCEPT ![c] =
                       [r EXCEPT !.pc = "done", !.events = <<event>>,
                                 !.result = MarketsOfEvent(enriched),
                                 !.sent = @ + 1, !.enrichFailed = ~seriesOk]]
                /\ kxRequests' = kxRequests + 1
    /\ UNCHANGED <<kxVersion, kxVendor, kxParams, kxNow, globalMarketCache,
                   globalSeriesMap, lastCacheTime, kxStoredAt, kxInFlight>>
    /\ KxFrame

\* The markets of a native search whose parent event was fetched (lines 225-234).
RECURSIVE WithEvents(_, _)
WithEvents(found, okEvents) ==
    IF found = <<>> THEN <<>>
    ELSE (IF Head(found).event_ticker \in okEvents
          THEN <<MapMarketToUnified(EventOf(Head(found).event_ticker),
                                    Head(found).ticker)>>
          ELSE <<>>) \o WithEvents(Tail(found), okEvents)

\* catch (error) of lines 130-137: the native error is dropped and the
\* cached search takes over.
FallbackRethrows(c, r) ==
    /\ kxCalls' = [kxCalls EXCEPT ![c] = [r EXCEPT !.pc = "failed"]]
    /\ UNCHANGED <<kxRequests, kxInFlight, globalMarketCache>>
Fallback(c, r) == EnterFetchAll(c, r, r.status)

\* searchMarketsNative (lines 190-243) from the answer of the markets request:
\* the parent events are requested in parallel, okEvents are those whose
\* request succeeds.  A failure of the markets request falls back to
\* fetchAllActiveMarkets (lines 130-137).
KxNativeDone(c, ok, okEvents) ==
    /\ kxCalls[c].pc = "native"
    /\ LET r == kxCalls[c]
           found == NativeFound(r.status)
           tickers == EventTickers(r.status)
       IN  IF ok
           THEN /\ okEvents \subseteq tickers
                /\ kxCalls' = [kxCalls EXCEPT ![c] =
                       [r EXCEPT !.pc = "done",
                                 !.result = ApplyFiltersAndPagination(
                                                WithEvents(found, okEvents),
                                                kxParams),
                                 !.sent = @ + Cardinality(tickers),
                                 !.enrichFailed = okEvents # tickers]]
                /\ kxRequests' = kxRequests + Cardinality(tickers)
                /\ UNCHANGED <<kxInFlight, globalMarketCache>>
           ELSE /\ okEvents = {}
                /\ Fallback(c, [r EXCEPT !.fellBack = TRUE])
    /\ UNCHANGED <<kxVersion, kxVendor, kxParams, kxNow, globalSeriesMap,
                   lastCacheTime, kxStoredAt>>
    /\ KxFrame

\* resetCache (lines 14-18).
KxResetCache ==
    /\ globalMarketCache # [s \in Statuses |-> NoList]
    /\ globalMarketCache' = [s \in Statuses |-> NoList]
    /\ globalSeriesMap' = NoSeriesMap
    /\ lastCacheTime' = [s \in Statuses |-> 0]
    /\ kxStoredAt' = [s \in Statuses |-> -1]
    /\ UNCHANGED <<kxVersion, kxVendor, kxParams, kxNow, kxRequests, kxInFlight,
                   kxCalls>>
    /\ KxFrame

\* Time passes.
KxTick ==
    /\ kxNow < MaxTicks * TickMs
    /\ kxNow' = kxNow + TickMs
    /\ UNCHANGED <<kxVersion, kxVendor, kxParams, globalMarketCache, globalSeriesMap,
                   lastCacheTime, kxStoredAt, kxRequests, kxInFlight, kxCalls>>
    /\ KxFrame

KxNext ==
    \/ \E c \in KxCallIds, path \in Paths, status \in Statuses :
           KxFetchMarkets(c, path, status)
    \/ \E c \in KxCallIds : KxPageOk(c)
    \/ \E c \in KxCallIds : KxPageFail(c)
    \/ \E c \in KxCallIds : KxSeriesOk(c)
    \/ \E c \in KxCallIds : KxSeriesFail(c)
    \/ \E c \in KxCallIds, eventOk \in BOOLEAN, seriesOk \in BOOLEAN :
           KxSlugDone(c, eventOk, seriesOk)
    \/ \E c \in KxCallIds, ok \in BOOLEAN, okEvents \in SUBSET EventIds :
           KxNativeDone(c, ok, okEvents)
    \/ KxResetCache
    \/ KxTick

\* One call of fetchMarkets and the vendor's answers to it.
KxNextOne ==
    \/ \E path \in Paths, status \in Statuses : KxFetchMarkets(1, path, status)
    \/ KxPageOk(1)
    \/ KxPageFail(1)
    \/ KxSeriesOk(1)
    \/ KxSeriesFail(1)
    \/ \E eventOk \in BOOLEAN, seriesOk \in BOOLEAN : KxSlugDone(1, eventOk, seriesOk)
    \/ \E ok \in BOOLEAN, okEvents \in SUBSET EventIds : KxNativeDone(1, ok, okEvents)

(***************************************************************************)
(* Baozi: mapping of on-chain market accounts to unified markets           *)
(* (src/core/src/exchanges/baozi/utils.ts lines 370-463), the adapter's    *)
(* error mapper (src/core/src/exchanges/baozi/errors.ts) and the order     *)
(* books built from a mapped market.                                       *)
(***************************************************************************)
bmVars == <<bmAccount, bmUnified, bmBook>>
brVars == <<brBuf, brOffset, brLog>>
auVars == <<auExchange, auCredentials, auRequests, auLog>>

MaxPool == 3
MaxOutcomes == 3
MaxRacePool == 2
LAMPORTS_PER_SOL == 1000000000

\* A JavaScript number, kept as an exact reduced fraction [n, d] with d >= 0:
\* d = 0 stands for Infinity (n = 1), -Infinity (n = -1) and NaN (n = 0).
\* Rounding to 64-bit floats and the sign of zero are not modelled.
Abs(x) == IF x < 0 THEN -x ELSE x
RECURSIVE Gcd(_, _)
Gcd(a, b) == IF b = 0 THEN a ELSE Gcd(b, a % b)
Num(n, d) ==
    LET g == Gcd(Abs(n), Abs(d))
        s == IF d < 0 THEN -1 ELSE 1
    IN  IF g = 0 THEN [n |-> 0, d |-> 0]
        ELSE [n |-> s * (n \div g), d |-> s * (d \div g)]
NaN == Num(0, 0)
Half == Num(1, 2)
Zero == Num(0, 1)
One == Num(1, 1)
FromInt(i) == Num(i, 1)
IsNaN(x) == x.d = 0 /\ x.n = 0
IsFinite(x) == x.d > 0
\* a / b
Divide(a, b) ==
    IF IsNaN(a) \/ IsNaN(b) THEN NaN
    ELSE LET s == IF b.n < 0 THEN -1 ELSE 1
         IN  Num(s * a.n * b.d, s * a.d * b.n)
\* a * b
Times(a, b) == IF IsNaN(a) \/ IsNaN(b) THEN NaN ELSE Num(a.n * b.n, a.d * b.d)
\* a + b
Plus(a, b) ==
    IF IsNaN(a) \/ IsNaN(b) THEN NaN
    ELSE IF a.d = 0 /\ b.d = 0 THEN (IF a.n = b.n THEN a ELSE NaN)
    ELSE Num(a.n * b.d + b.n * a.d, a.d * b.d)
\* a > b: false when either is NaN
Greater(a, b) ==
    /\ ~IsNaN(a)
    /\ ~IsNaN(b)
    /\ IF a.d = 0 /\ b.d = 0 THEN a.n > b.n ELSE a.n * b.d > b.n * a.d
MathMax(a, b) == IF IsNaN(a) \/ IsNaN(b) THEN NaN ELSE IF Greater(a, b) THEN a ELSE b
MathMin(a, b) == IF IsNaN(a) \/ IsNaN(b) THEN NaN ELSE IF Greater(a, b) THEN b ELSE a

NoAccount == [kind |-> "none"]
NoUnified == [marketId |-> "none"]
NoOrderBook == [via |-> "none"]
Null == [ref |-> 0]
\* A reference to the object at outcomes[i], as opposed to a copy of it.
Ref(i) == [ref |-> i]
MarketPubkey == "M"
OtherPubkey == "X"

\* `${pubkey}-${suffix}`
OutcomeId(pubkey, suffix) == <<pubkey, suffix>>
\* outcomeId.replace(/-YES$|-NO$|-\d+$/, '')
StripSuffix(outcomeId) == outcomeId[1]
\* `${i}` and `Outcome ${i + 1}` for the index i of a race outcome
IndexText(i) == <<"0", "1", "2", "3", "4", "5", "6", "7", "8", "9", "10">>[i + 1]
OutcomeLabel(i) ==
    <<"Outcome 1", "Outcome 2", "Outcome 3", "Outcome 4", "Outcome 5", "Outcome 6",
      "Outcome 7", "Outcome 8", "Outcome 9", "Outcome 10">>[i + 1]
BaoziOutcomeIds ==
    {OutcomeId(MarketPubkey, x) : x \in {"YES", "NO"}}
        \cup {OutcomeId(MarketPubkey, IndexText(i)) : i \in 0..MaxOutcomes}
        \cup {OutcomeId(OtherPubkey, "YES")}

RECURSIVE IndexOfLabel(_, _, _)
IndexOfLabel(outcomes, label, i) ==
    IF i > Len(outcomes) THEN 0
    ELSE IF outcomes[i].label = label THEN i
    ELSE IndexOfLabel(outcomes, label, i + 1)
\* addBinaryOutcomes of utils/market-utils: on a market of two outcomes, yes
\* and no become references to entries of outcomes.
AddBinaryOutcomes(um) ==
    LET y == IndexOfLabel(um.outcomes, "Yes", 1)
        yes == IF y = 0 THEN 1 ELSE y
    IN  IF Len(um.outcomes) = 2
        THEN [um EXCEPT !.yes = Ref(yes), !.no = Ref(3 - yes)]
        ELSE um

\* The mutation: the prices of the two sides are not swapped.
BooleanPricesOwnSide(market) ==
    LET totalPool == market.yesPool + market.noPool
    IN  IF totalPool > 0
        THEN [yes |-> Divide(FromInt(market.yesPool), FromInt(totalPool)),
              no |-> Divide(FromInt(market.noPool), FromInt(totalPool))]
        ELSE [yes |-> Half, no |-> Half]
\* utils.ts lines 371-383: yesPrice and noPrice
BooleanPrices(market) ==
    LET totalPool == market.yesPool + market.noPool
    IN  IF totalPool > 0
        THEN [yes |-> Divide(FromInt(market.noPool), FromInt(totalPool)),
              no |-> Divide(FromInt(market.yesPool), FromInt(totalPool))]
        ELSE [yes |-> Half, no |-> Half]

MapBooleanToUnified(market, pubkey) ==
    LET totalPool == market.yesPool + market.noPool
        totalPoolSol == Divide(FromInt(totalPool), FromInt(LAMPORTS_PER_SOL))
        prices == BooleanPrices(market)
        outcomes ==
            << [outcomeId |-> OutcomeId(pubkey, "YES"), marketId |-> pubkey,
                label |-> "Yes", price |-> prices.yes],
               [outcomeId |-> OutcomeId(pubkey, "NO"), marketId |-> pubkey,
                label |-> "No", price |-> prices.no] >>
    IN  AddBinaryOutcomes([marketId |-> pubkey, outcomes |-> outcomes,
                           volume |-> totalPoolSol, liquidity |-> totalPoolSol,
                           yes |-> Null, no |-> Null])

\* utils.ts lines 423-436: the price of outcome i before normalisation
RacePrice(market, i) ==
    LET pool == market.outcomePools[i]
        otherPools == market.totalPool - pool
        price ==
            IF market.totalPool > 0
            THEN Divide(FromInt(otherPools),
                        Times(FromInt(market.totalPool),
                              FromInt(market.outcomeCount - 1)))
            ELSE Divide(One, FromInt(market.outcomeCount))
    IN  MathMin(MathMax(price, Zero), One)

RECURSIVE SumPrices(_, _)
\* outcomes.reduce((s, o) => s + o.price, 0)
SumPrices(outcomes, i) ==
    IF i = 0 THEN Zero ELSE Plus(SumPrices(outcomes, i - 1), outcomes[i].price)

MapRaceToUnified(market, pubkey) ==
    LET totalPoolSol == Divide(FromInt(market.totalPool), FromInt(LAMPORTS_PER_SOL))
        raw == [i \in 1..market.outcomeCount |->
                   [outcomeId |-> OutcomeId(pubkey, IndexText(i - 1)),
                    marketId |-> pubkey, label |-> OutcomeLabel(i - 1),
                    price |-> RacePrice(market, i)]]
        priceSum == SumPrices(raw, Len(raw))
        outcomes ==
            IF Greater(priceSum, Zero)
            THEN [i \in 1..Len(raw) |->
                     [raw[i] EXCEPT !.price = Divide(raw[i].price, priceSum)]]
            ELSE raw
    IN  AddBinaryOutcomes([marketId |-> pubkey, outcomes |-> outcomes,
                           volume |-> totalPoolSol, liquidity |-> totalPoolSol,
                           yes |-> Null, no |-> Null])

\* src/unnamed/part_003 lines 36-45: the mapper is chosen by the account's
\* discriminator.
UnifiedOf(account, pubkey) ==
    IF account.kind = "boolean" THEN MapBooleanToUnified(account, pubkey)
    ELSE IF account.kind = "race" THEN MapRaceToUnified(account, pubkey)
    ELSE NoUnified

\* fetchSingleMarket of ./fetchMarkets: the unified market of the account at
\* pubkey, or null.
FetchSingleMarket(pubkey) ==
    IF pubkey = MarketPubkey THEN UnifiedOf(bmAccount, pubkey) ELSE NoUnified

\* market.outcomes.find(o => o.outcomeId === outcomeId): its index, 0 if none
RECURSIVE FindOutcome(_, _, _)
FindOutcome(outcomes, outcomeId, i) ==
    IF i > Len(outcomes) THEN 0
    ELSE IF outcomes[i].outcomeId = outcomeId THEN i
    ELSE FindOutcome(outcomes, outcomeId, i + 1)

\* Errors: [class, message], the message being one of the texts below.
AuthMessage == "Trading operations require authentication"
RpcMessages ==
    {"fetch failed", "insufficient lamports",
     "Transaction simulation failed: custom program error: 0x1784",
     "Transaction simulation failed: custom program error: 0x1770",
     "Transaction simulation failed: custom program error: 0x2000",
     "Node is behind", "Account does not exist"}
Err(class, message) == [class |-> class, message |-> message]
\* The set of the mapper's phrases that occur in a message.
PhrasesIn(message) ==
    CASE message = "fetch failed" -> {"fetch failed"}
      [] message = "insufficient lamports" -> {"insufficient lamports"}
      [] message = "Transaction simulation failed: custom program error: 0x1784" ->
             {"Transaction simulation failed", "anchor 6020"}
      [] message = "Transaction simulation failed: custom program error: 0x1770" ->
             {"Transaction simulation failed", "anchor 6000"}
      [] message = "Transaction simulation failed: custom program error: 0x2000" ->
             {"Transaction simulation failed", "anchor 8192"}
      [] message = "Node is behind" -> {"Node is behind"}
      [] OTHER -> {}
TaxonomyClasses ==
    {"AuthenticationError", "InvalidOrder", "InsufficientFunds", "NetworkError",
     "ExchangeNotAvailable", "BadRequest", "MarketNotFound"}
\* ErrorMapper.mapError of utils/error-mapper: an error of the taxonomy is
\* kept, any other becomes BadRequest with its message.
BaseMapError(error) ==
    IF error.class \in TaxonomyClasses THEN error
    ELSE Err("BadRequest", error.message)
\* errors.ts lines 61-81
ExtractAnchorError(message) ==
    LET p == PhrasesIn(message)
    IN  IF "anchor 6020" \in p THEN Err("InvalidOrder", "Bet amount too small")
        ELSE IF "anchor 6000" \in p THEN Err("BadRequest", "Unauthorized")
        ELSE IF "anchor 8192" \in p THEN Err("BadRequest", message)
        ELSE Err("none", message)
\* errors.ts lines 30-59
BaoziMapError(error) ==
    LET p == PhrasesIn(error.message)
    IN  IF "insufficient lamports" \in p
        THEN Err("InsufficientFunds", "Insufficient SOL balance")
        ELSE IF p \cap {"failed to send transaction", "Node is behind",
                        "Transaction simulation failed"} # {}
        THEN (IF ExtractAnchorError(error.message).class # "none"
              THEN ExtractAnchorError(error.message)
              ELSE Err("NetworkError", error.message))
        ELSE IF "fetch failed" \in p
        THEN Err("ExchangeNotAvailable", "Solana RPC unreachable")
        ELSE BaseMapError(error)

\* The synthetic book of fetchTrades.ts lines 37-47 and part_003 lines 49-56.
SyntheticBook(market, outcomeId) ==
    LET o == FindOutcome(market.outcomes, outcomeId, 1)
        price == IF o = 0 THEN Half ELSE market.outcomes[o].price
        totalLiquidity == market.liquidity
    IN  [bids |-> << [price |-> price, size |-> totalLiquidity] >>,
         asks |-> << [price |-> price, size |-> totalLiquidity] >>]
\* What a call leaves in bmBook: the book it returned or the error it threw.
Delivered(via, outcomeId, book) ==
    [via |-> via, outcomeId |-> outcomeId, error |-> Err("none", ""),
     bids |-> book.bids, asks |-> book.asks]
Failed(via, outcomeId, error) ==
    [via |-> via, outcomeId |-> outcomeId, error |-> error,
     bids |-> <<>>, asks |-> <<>>]

Pools == 0..MaxPool
BooleanAccounts ==
    {[kind |-> "boolean", yesPool |-> y, noPool |-> n] : y \in Pools, n \in Pools}
RECURSIVE SumPools(_, _)
SumPools(pools, i) == IF i = 0 THEN 0 ELSE SumPools(pools, i - 1) + pools[i]
\* Race accounts as the program keeps them: totalPool is the sum of the pools.
RaceAccounts ==
    UNION {{[kind |-> "race", outcomeCount |-> k, outcomePools |-> ps,
             totalPool |-> SumPools(ps, k)] : ps \in [1..k -> 0..MaxRacePool]}
           : k \in 1..MaxOutcomes}
\* Race accounts of any pool values: totalPool is a field of its own.
AnyRaceAccounts ==
    UNION {{[kind |-> "race", outcomeCount |-> k, outcomePools |-> ps,
             totalPool |-> t] : ps \in [1..k -> 0..MaxRacePool], t \in Pools}
           : k \in 1..MaxOutcomes}

BmIdle == bmAccount = NoAccount /\ bmUnified = NoUnified /\ bmBook = NoOrderBook
BmInit ==
    /\ bmAccount \in BooleanAccounts \cup RaceAccounts \cup AnyRaceAccounts
    /\ bmUnified = NoUnified
    /\ bmBook = NoOrderBook

\* mapBooleanToUnified or mapRaceToUnified applied to the account.
BmMap ==
    /\ bmUnified = NoUnified
    /\ bmUnified' = UnifiedOf(bmAccount, MarketPubkey)
    /\ UNCHANGED <<bmAccount, bmBook, brVars, auVars>>
    /\ BxFrame

\* fetchOrderBook (fetchTrades.ts lines 25-51); rpc is "ok" or the message of
\* the error the RPC call fails with.
BmFetchOrderBook(outcomeId, rpc) ==
    LET marketPubkey == StripSuffix(outcomeId)
        market == FetchSingleMarket(marketPubkey)
        thrown == IF rpc # "ok" THEN Err("Error", rpc)
                  ELSE Err("Error", "Market not found")
    IN  /\ bmBook' =
               IF rpc # "ok" \/ market = NoUnified
               THEN Failed("fetchOrderBook", outcomeId, BaoziMapError(thrown))
               ELSE Delivered("fetchOrderBook", outcomeId,
                              SyntheticBook(market, outcomeId))
        /\ UNCHANGED <<bmAccount, bmUnified, brVars, auVars>>
        /\ BxFrame

\* The onAccountChange callback of watchOrderBook (part_003 lines 33-61): the
\* book goes to the pending watchers; nothing happens without a market.
BmAccountChanged(outcomeId) ==
    LET market == UnifiedOf(bmAccount, MarketPubkey)
    IN  /\ StripSuffix(outcomeId) = MarketPubkey
        /\ market # NoUnified
        /\ bmBook' = Delivered("watchOrderBook", outcomeId,
                                SyntheticBook(market, outcomeId))
        /\ UNCHANGED <<bmAccount, bmUnified, brVars, auVars>>
        /\ BxFrame

BmNext ==
    \/ BmMap
    \/ \E outcomeId \in BaoziOutcomeIds, rpc \in {"ok", "fetch failed"} :
           BmFetchOrderBook(outcomeId, rpc)
    \/ \E outcomeId \in BaoziOutcomeIds : BmAccountChanged(outcomeId)

(***************************************************************************)
(* BorshReader (src/core/src/exchanges/baozi/utils.ts lines 51-139).       *)
(***************************************************************************)
MaxReads == 3
MaxHead == 2
HeadBytes == {0, 1, 2}
TailLens == {0, 3, 7, 31, 39}
FixedLens == {0, 2, 32}

Zeros(n) == [i \in 1..n |-> 0]
\* The buffers read: up to MaxHead bytes of HeadBytes, then zero bytes.
Buffers ==
    {h \o Zeros(n) : h \in UNION {[1..k -> HeadBytes] : k \in 0..MaxHead},
                     n \in TailLens}

\* What a read does: it returns a value and leaves the offset at `offset`, or
\* it throws and leaves the offset at `offset`.
Returned(offset, value) == [offset |-> offset, outcome |-> "value", value |-> value]
Thrown(offset) == [offset |-> offset, outcome |-> "error", value |-> [none |-> TRUE]]

RECURSIVE LittleEndian(_)
LittleEndian(bytes) ==
    IF bytes = <<>> THEN 0 ELSE Head(bytes) + 256 * LittleEndian(Tail(bytes))
\* Buffer.readUInt8, readUInt16LE, readUInt32LE, readBigUInt64LE: a RangeError
\* unless the w bytes at offset lie within the buffer.
ReadUIntLE(buf, offset, w) ==
    IF offset + w <= Len(buf)
    THEN Returned(offset + w,
                  [int |-> LittleEndian(SubSeq(buf, offset + 1, offset + w))])
    ELSE Thrown(offset)
\* Buffer.subarray(start, end): both ends are clamped to the buffer.
Subarray(buf, start, end) ==
    SubSeq(buf, Min(start, Len(buf)) + 1, Min(end, Len(buf)))

ReadU8(buf, offset) == ReadUIntLE(buf, offset, 1)
ReadU16(buf, offset) == ReadUIntLE(buf, offset, 2)
ReadU64(buf, offset) == ReadUIntLE(buf, offset, 8)
\* readBigInt64LE: the top byte of every buffer read here is below 128, where
\* the signed and the unsigned value are the same.
ReadI64(buf, offset) == ReadUIntLE(buf, offset, 8)
ReadBool(buf, offset) ==
    LET r == ReadU8(buf, offset)
    IN  IF r.outcome = "error" THEN r
        ELSE Returned(r.offset, [bool |-> r.value.int = 1])
\* The mutation: a pubkey is taken to be 31 bytes wide.
ReadPubkeyShort(buf, offset) ==
    Returned(offset + 31, [bs58 |-> Subarray(buf, offset, offset + 31)])
\* bs58.encode of the bytes the subarray holds
ReadPubkey(buf, offset) ==
    Returned(offset + 32, [bs58 |-> Subarray(buf, offset, offset + 32)])
ReadString(buf, offset) ==
    LET len == ReadUIntLE(buf, offset, 4)
    IN  IF len.outcome = "error" THEN len
        ELSE Returned(offset + 4 + len.value.int,
                      [utf8 |-> Subarray(buf, offset + 4,
                                         offset + 4 + len.value.int)])
ReadFixedBytes(buf, offset, len) ==
    Returned(offset + len, [bytes |-> Subarray(buf, offset, offset + len)])
Skip(buf, offset, len) == Returned(offset + len, [undefined |-> TRUE])
\* readOptionBool, readOptionU8, readOptionPubkey, readOptionFixedBytes: the
\* tag byte, then the payload unless the tag is 0.
ReadOption(buf, offset, Payload(_, _)) ==
    LET hasValue == ReadU8(buf, offset)
    IN  IF hasValue.outcome = "error" THEN hasValue
        ELSE IF hasValue.value.int = 0 THEN Returned(hasValue.offset, [null |-> TRUE])
        ELSE Payload(buf, hasValue.offset)
ReadOptionBool(buf, offset) == ReadOption(buf, offset, ReadBool)
ReadOptionU8(buf, offset) == ReadOption(buf, offset, ReadU8)
ReadOptionPubkey(buf, offset) == ReadOption(buf, offset, ReadPubkey)
ReadOptionFixedBytes(buf, offset, len) ==
    LET Payload(b, o) == ReadFixedBytes(b, o, len)
    IN  ReadOption(buf, offset, Payload)
GetOffset == brOffset

BrIdle == brBuf = <<>> /\ brOffset = 0 /\ brLog = <<>>
\* new BorshReader(buf)
BrInit == brBuf \in Buffers /\ brOffset = 0 /\ brLog = <<>>

\* One call of a read method on the reader.
BrCall(op, len, r) ==
    /\ Len(brLog) < MaxReads
    /\ brOffset' = r.offset
    /\ brLog' = Append(brLog, [op |-> op, len |-> len, at |-> brOffset,
                               outcome |-> r.outcome, value |-> r.value])
    /\ UNCHANGED <<brBuf, bmVars, auVars>>
    /\ BxFrame
BrReadU8 == BrCall("readU8", 0, ReadU8(brBuf, brOffset))
BrReadU16 == BrCall("readU16", 0, ReadU16(brBuf, brOffset))
BrReadU64 == BrCall("readU64", 0, ReadU64(brBuf, brOffset))
BrReadI64 == BrCall("readI64", 0, ReadI64(brBuf, brOffset))
BrReadBool == BrCall("readBool", 0, ReadBool(brBuf, brOffset))
BrReadPubkey == BrCall("readPubkey", 0, ReadPubkey(brBuf, brOffset))
BrReadString == BrCall("readString", 0, ReadString(brBuf, brOffset))
BrReadOptionBool == BrCall("readOptionBool", 0, ReadOptionBool(brBuf, brOffset))
BrReadOptionU8 == BrCall("readOptionU8", 0, ReadOptionU8(brBuf, brOffset))
BrReadOptionPubkey ==
    BrCall("readOptionPubkey", 0, ReadOptionPubkey(brBuf, brOffset))
BrReadFixedBytes(len) ==
    BrCall("readFixedBytes", len, ReadFixedBytes(brBuf, brOffset, len))
BrSkip(len) == BrCall("skip", len, Skip(brBuf, brOffset, len))
BrReadOptionFixedBytes(len) ==
    BrCall("readOptionFixedBytes", len, ReadOptionFixedBytes(brBuf, brOffset, len))

BrNext ==
    \/ BrReadU8
    \/ BrReadU16
    \/ BrReadU64
    \/ BrReadI64
    \/ BrReadBool
    \/ BrReadPubkey
    \/ BrReadString
    \/ BrReadOptionBool
    \/ BrReadOptionU8
    \/ BrReadOptionPubkey
    \/ \E len \in FixedLens : BrReadFixedBytes(len)
    \/ \E len \in FixedLens : BrSkip(len)
    \/ \E len \in FixedLens : BrReadOptionFixedBytes(len)

(***************************************************************************)
(* Private calls of an exchange instance: BaoziExchange                    *)
(* (src/unnamed/part_002) and KalshiExchange, of which only the test       *)
(* src/core/src/exchanges/kalshi/kalshi.test.ts is at hand.                *)
(***************************************************************************)
MaxPrivateCalls == 2
MaxPositions == 1

Undefined == [given |-> FALSE, apiKey |-> FALSE, privateKey |-> FALSE]
\* The credentials a constructor can be given: none, or any of the two keys.
CredentialSets ==
    {Undefined} \cup
    {[given |-> TRUE, apiKey |-> a, privateKey |-> k] : a \in BOOLEAN, k \in BOOLEAN}
\* part_002 lines 87-89: this.auth is set when credentials?.privateKey is.
BaoziAuthOf(credentials) == credentials.given /\ credentials.privateKey
\* KalshiExchange: auth needs the API key and the private key.
KalshiAuthOf(credentials) ==
    credentials.given /\ credentials.apiKey /\ credentials.privateKey
Ok == Err("none", "")
\* The mutation: ensureAuth lets every caller through.
EnsureAuthLenient(hasAuth, exchange) == Ok
\* ensureAuth (part_002 lines 439-448): throws without this.auth.
EnsureAuth(hasAuth, exchange) ==
    IF ~hasAuth THEN Err("AuthenticationError", AuthMessage) ELSE Ok

\* What a call leaves behind: its outcome and the requests it issued.
AuDone(op, error, sent) ==
    /\ Len(auLog) < MaxPrivateCalls
    /\ auRequests' = auRequests + sent
    /\ auLog' = Append(auLog, [op |-> op, outcome |-> error.class,
                               message |-> error.message, sent |-> sent])
    /\ UNCHANGED <<auExchange, auCredentials, bmVars, brVars>>
    /\ BxFrame
RpcError(rpc) == Err("Error", rpc)

\* BaoziExchange.fetchBalance (part_002 lines 124-139); rpc is "ok" or the
\* message getBalance fails with.
AuFetchBalance(rpc) ==
    LET auth == EnsureAuth(BaoziAuthOf(auCredentials), "Baozi")
    IN  /\ auExchange = "baozi"
        /\ IF auth # Ok THEN AuDone("fetchBalance", BaoziMapError(auth), 0)
           ELSE IF rpc # "ok"
           THEN AuDone("fetchBalance", BaoziMapError(RpcError(rpc)), 1)
           ELSE AuDone("fetchBalance", Ok, 1)

\* BaoziExchange.fetchPositions (part_002 lines 141-251): two
\* getProgramAccounts requests at once, then one getAccountInfo per unclaimed
\* boolean position, whose failure is ignored.
AuFetchPositions(rpc, positions) ==
    LET auth == EnsureAuth(BaoziAuthOf(auCredentials), "Baozi")
    IN  /\ auExchange = "baozi"
        /\ IF auth # Ok THEN AuDone("fetchPositions", BaoziMapError(auth), 0)
           ELSE IF rpc # "ok"
           THEN AuDone("fetchPositions", BaoziMapError(RpcError(rpc)), 2)
           ELSE AuDone("fetchPositions", Ok, 2 + positions)

\* BaoziExchange.createOrder (part_002 lines 257-370): getAccountInfo,
\* getLatestBlockhash, sendRawTransaction, confirmTransaction; failAt is the
\* request that fails with the message rpc (0: none does), found tells whether
\* the market account exists, inRange whether a race outcome index is below
\* the market's outcomeCount.
AuCreateOrder(failAt, rpc, found, inRange) ==
    LET auth == EnsureAuth(BaoziAuthOf(auCredentials), "Baozi")
    IN  /\ auExchange = "baozi"
        /\ failAt = 0 <=> rpc = "ok"
        /\ IF auth # Ok THEN AuDone("createOrder", BaoziMapError(auth), 0)
           ELSE IF failAt = 1
           THEN AuDone("createOrder", BaoziMapError(RpcError(rpc)), 1)
           ELSE IF ~found
           THEN AuDone("createOrder",
                       BaoziMapError(Err("Error", "Market not found")), 1)
           ELSE IF ~inRange
           THEN AuDone("createOrder",
                       BaoziMapError(Err("InvalidOrder", "Outcome index")), 1)
           ELSE IF failAt # 0
           THEN AuDone("createOrder", BaoziMapError(RpcError(rpc)), failAt)
           ELSE AuDone("createOrder", Ok, 4)

\* KalshiExchange.fetchBalance: the authentication check, then one request.
AuKalshiFetchBalance(ok) ==
    LET auth == EnsureAuth(KalshiAuthOf(auCredentials), "Kalshi")
    IN  /\ auExchange = "kalshi"
        /\ IF auth # Ok THEN AuDone("fetchBalance", BaseMapError(auth), 0)
           ELSE IF ~ok
           THEN AuDone("fetchBalance", BaseMapError(RpcError("fetch failed")), 1)
           ELSE AuDone("fetchBalance", Ok, 1)

AuIdle ==
    /\ auExchange = "baozi"
    /\ auCredentials = Undefined
    /\ auRequests = 0
    /\ auLog = <<>>
\* new BaoziExchange(credentials) or new KalshiExchange(credentials)
AuInit ==
    /\ auExchange \in {"baozi", "kalshi"}
    /\ auCredentials \in CredentialSets
    /\ auRequests = 0
    /\ auLog = <<>>

AuNext ==
    \/ \E rpc \in {"ok"} \cup RpcMessages : AuFetchBalance(rpc)
    \/ \E rpc \in {"ok"} \cup RpcMessages, positions \in 0..MaxPositions :
           AuFetchPositions(rpc, positions)
    \/ \E failAt \in 0..4, rpc \in {"ok"} \cup RpcMessages,
          found \in BOOLEAN, inRange \in BOOLEAN :
           AuCreateOrder(failAt, rpc, found, inRange)
    \/ \E ok \in BOOLEAN : AuKalshiFetchBalance(ok)

(***************************************************************************)
(* parseRaceMarket (src/core/src/exchanges/baozi/utils.ts lines 259-333)   *)
(* over the account data of a race market, and mapRaceToUnified on what it *)
(* returns.                                                                *)
(***************************************************************************)
LabelSlots == 10
PoolSlots == 10
\* The values of the outcome_count byte tried.
OutcomeCountBytes == {0, 1, 2, 10, 11, 255}
QuestionLens == {0, 2}

Repeat(n, x) == [i \in 1..n |-> x]
RECURSIVE Flatten(_)
Flatten(seqs) == IF seqs = <<>> THEN <<>> ELSE Head(seqs) \o Flatten(Tail(seqs))
\* A u64 below 256, little-endian.
U64Bytes(n) == <<n>> \o Zeros(7)
\* The label of slot i, padded with zero bytes to 32.
LabelBytes(i) == <<65 + i>> \o Zeros(31)

\* The account data of a race market as the program lays it out: every one
\* of the 10 label slots and of the 10 pool slots is there, whatever
\* outcome_count says.
RaceData(count, questionLen, pools) ==
    Zeros(8) \o U64Bytes(1)
        \o <<questionLen, 0, 0, 0>> \o Repeat(questionLen, 81)
        \o Zeros(24) \o <<count>>
        \o Flatten([i \in 1..LabelSlots |-> LabelBytes(i)])
        \o Flatten([i \in 1..PoolSlots |-> U64Bytes(pools[i])])
        \o U64Bytes(SumPools(pools, PoolSlots))
        \o Zeros(80) \o Zeros(8)
        \o <<0>> \o <<0>> \o <<0>> \o Zeros(24) \o Zeros(8) \o Zeros(4)
        \o Zeros(32) \o <<0>> \o Zeros(160) \o <<0>> \o Zeros(10) \o <<0>>
        \o Zeros(2) \o <<0>> \o Zeros(2)
\* The pools of the slots: the first two vary, the others are empty.
SlotPools ==
    {[i \in 1..PoolSlots |-> IF i = 1 THEN a ELSE IF i = 2 THEN b ELSE 0] :
         a \in 0..MaxRacePool, b \in 0..MaxRacePool}
RaceBuffers ==
    {RaceData(count, q, pools) :
         count \in OutcomeCountBytes, q \in QuestionLens, pools \in SlotPools}

Op(op, len) == [op |-> op, len |-> len]
\* The reads of parseRaceMarket in their order, lines 263-314.
RaceLayout ==
    <<Op("skip", 8), Op("readU64", 0), Op("readString", 0), Op("readI64", 0),
      Op("readI64", 0), Op("readI64", 0), Op("readU8", 0)>>
        \o Repeat(LabelSlots, Op("readFixedBytes", 32))
        \o Repeat(PoolSlots, Op("readU64", 0))
        \o <<Op("readU64", 0), Op("skip", 80), Op("readU64", 0), Op("readU8", 0),
             Op("readOptionU8", 0), Op("readU8", 0), Op("readU64", 0),
             Op("readU64", 0), Op("readU64", 0), Op("readI64", 0),
             Op("readU8", 0), Op("readU8", 0), Op("readU8", 0), Op("readU8", 0),
             Op("readPubkey", 0), Op("readOptionPubkey", 0), Op("skip", 160),
             Op("readU8", 0), Op("skip", 10), Op("readU8", 0), Op("readU16", 0),
             Op("readOptionPubkey", 0), Op("readU16", 0)>>

\* reader.<op>(len) at offset.
ReadBy(o, buf, offset) ==
    CASE o.op = "skip" -> Skip(buf, offset, o.len)
      [] o.op = "readU8" -> ReadU8(buf, offset)
      [] o.op = "readU16" -> ReadU16(buf, offset)
      [] o.op = "readU64" -> ReadU64(buf, offset)
      [] o.op = "readI64" -> ReadI64(buf, offset)
      [] o.op = "readString" -> ReadString(buf, offset)
      [] o.op = "readFixedBytes" -> ReadFixedBytes(buf, offset, o.len)
      [] o.op = "readPubkey" -> ReadPubkey(buf, offset)
      [] o.op = "readOptionU8" -> ReadOptionU8(buf, offset)
      [] o.op = "readOptionPubkey" -> ReadOptionPubkey(buf, offset)

\* The reads ops on a reader at offset, up to the first one that throws: the
\* log of what each did.
RECURSIVE RunReads(_, _, _)
RunReads(buf, offset, ops) ==
    IF ops = <<>> THEN <<>>
    ELSE LET r == ReadBy(Head(ops), buf, offset)
             e == [op |-> Head(ops).op, len |-> Head(ops).len, at |-> offset,
                   outcome |-> r.outcome, value |-> r.value]
         IN  IF r.outcome = "error" THEN <<e>>
             ELSE <<e>> \o RunReads(buf, r.offset, Tail(ops))

\* Array.prototype.slice(0, end) for end >= 0.
SliceTo(seq, end) == SubSeq(seq, 1, Min(end, Len(seq)))
\* line 278: the bytes of the label that are not 0
NonZero(bytes) == SelectSeq(bytes, LAMBDA b : b # 0)

\* What parseRaceMarket returns from the log of its reads, lines 270-287
\* and 316-332.
RaceMarketOf(log) ==
    LET outcomeCount == log[7].value.int
        outcomeLabels ==
            [i \in 1..Min(outcomeCount, LabelSlots) |->
                NonZero(log[7 + i].value.bytes)]
        outcomePools ==
            [i \in 1..PoolSlots |-> log[7 + LabelSlots + i].value.int]
    IN  [kind |-> "race",
         marketId |-> log[2].value.int,
         question |-> log[3].value.utf8,
         outcomeCount |-> outcomeCount,
         outcomeLabels |-> SliceTo(outcomeLabels, outcomeCount),
         outcomePools |-> SliceTo(outcomePools, outcomeCount),
         totalPool |-> log[8 + LabelSlots + PoolSlots].value.int]

\* parseRaceMarket(data): the reads, and the market or the error thrown.
ParseRaceMarket(data) ==
    LET log == RunReads(data, 0, RaceLayout)
        last == log[Len(log)]
    IN  [log |-> log,
         offset |-> IF last.outcome = "error" THEN last.at
                    ELSE ReadBy(Op(last.op, last.len), data, last.at).offset,
         market |-> IF last.outcome = "error" THEN [kind |-> "RangeError"]
                    ELSE RaceMarketOf(log)]

\* The account data is decoded.
BrParseRaceMarket ==
    /\ brLog = <<>>
    /\ brBuf # <<>>
    /\ LET parsed == ParseRaceMarket(brBuf)
       IN  /\ brLog' = parsed.log
           /\ brOffset' = parsed.offset
           /\ bmAccount' = parsed.market
    /\ UNCHANGED <<brBuf, bmUnified, bmBook, auVars>>
    /\ BxFrame

\* mapRaceToUnified (lines 418-463) on the decoded market: line 425 subtracts
\* market.outcomePools[i] from a bigint, which throws a TypeError when the
\* array has no element i.
BmMapRace ==
    /\ bmAccount.kind = "race"
    /\ brLog # <<>>
    /\ bmUnified = NoUnified
    /\ bmUnified' =
           IF \E i \in 1..bmAccount.outcomeCount : i > Len(bmAccount.outcomePools)
           THEN [marketId |-> MarketPubkey, thrown |-> "TypeError"]
           ELSE MapRaceToUnified(bmAccount, MarketPubkey)
    /\ UNCHANGED <<bmAccount, bmBook, brVars, auVars>>
    /\ BxFrame

RaceNext == BrParseRaceMarket \/ BmMapRace

BxIdle == BmIdle /\ BrIdle /\ AuIdle

(***************************************************************************)
(* Specifications.                                                         *)
(***************************************************************************)
\* The state of a component no call was made on yet.
ThIdle == ThInit /\ refillMs = 1 /\ capacity = 0 /\ delay = 1
QuietFeed == [prices |-> 1..1, sizes |-> 1, levels |-> 0, changes |-> 1]
\* Books of several levels, one change per delta event.
BookFeed == [prices |-> 1..MaxPrice, sizes |-> 1, levels |-> MaxLevels,
             changes |-> 1]
\* Books of one level and several sizes, one change per delta event.
SizeFeed == [prices |-> 1..1, sizes |-> MaxSize, levels |-> 1, changes |-> 1]
\* Books of one level, delta events of several changes.
DeltaFeed == [prices |-> 1..1, sizes |-> 1, levels |-> 1, changes |-> MaxChanges]
PmIdle == PmInit /\ pmEager = FALSE /\ pmFeed = QuietFeed

InitThrottler == ThInit /\ adapter = "none" /\ PmIdle /\ BzInit /\ MxInit /\ KxIdle /\ BxIdle
SpecThrottler == InitThrottler /\ [][ThNext]_vars

\* The event loop keeps running: time passes and a due timer fires.
FairSpecThrottler == SpecThrottler /\ WF_vars(Tick) /\ WF_vars(TimerFire)

InitRealtime ==
    /\ adapter \in {"polymarket", "baozi"}
    /\ ThIdle
    /\ IF adapter = "polymarket"
       THEN PmInit /\ pmFeed = QuietFeed
       ELSE PmIdle
    /\ BzInit
    /\ MxInit
    /\ KxIdle
    /\ BxIdle
NextRealtime == PmNext \/ BzNext
SpecRealtime == InitRealtime /\ [][NextRealtime]_vars

\* The Polymarket channel under a feed of full books and deltas.
InitBooks ==
    /\ adapter = "polymarket"
    /\ ThIdle
    /\ PmInit /\ pmEager /\ pmFeed \in {BookFeed, SizeFeed, DeltaFeed}
    /\ BzInit
    /\ MxInit
    /\ KxIdle
    /\ BxIdle

\* One exchange instance, its market cache and the calls on it.
InitMarkets == adapter = "none" /\ ThIdle /\ PmIdle /\ BzInit /\ MxInit /\ KxIdle /\ BxIdle
SpecMarkets == InitMarkets /\ [][MxNext]_vars
\* The channel while it is open: watch calls and vendor events, no close().
NextBooks ==
    \/ \E w \in Watchers, kind \in {"book", "trades"}, id \in AssetIds :
           PmWatchCall(w, kind, id)
    \/ PmImportDone
    \/ \E w \in Watchers : PmWatchResume(w)
    \/ \E w \in Watchers : PmSubscribed(w)
    \/ \E id \in AssetIds, bids \in SnapshotSides, asks \in SnapshotSides :
           HandleBookSnapshot(id, bids, asks)
    \/ \E changes \in ChangeSeqs : HandlePriceChange(changes)
    \/ \E id \in AssetIds, t \in TradePayloads : HandleTrade(id, t.price, t.size)
SpecBooks == InitBooks /\ [][NextBooks]_vars

\* The Kalshi adapter: one of the two modules, the calls of fetchMarkets, the
\* vendor's answers and the clock.
InitKalshi ==
    /\ adapter = "none" /\ ThIdle /\ PmIdle /\ BzInit /\ MxInit /\ BxIdle
    /\ KxInit
    /\ kxVersion \in {"core", "legacy"}
    /\ kxVendor = "listed"
    /\ kxParams = DefaultParams
SpecKalshi == InitKalshi /\ [][KxNext]_vars

\* One call of fetchMarkets: under default params against each vendor, and
\* under each params against the listed vendor.
InitKalshiCall ==
    /\ adapter = "none" /\ ThIdle /\ PmIdle /\ BzInit /\ MxInit /\ BxIdle
    /\ KxInit
    /\ kxVersion \in {"core", "legacy"}
    /\ \/ kxVendor \in Vendors /\ kxParams = DefaultParams
       \/ kxVendor = "listed" /\ kxParams \in ParamSets
SpecKalshiCall == InitKalshiCall /\ [][KxNextOne]_vars

\* The decoding and mapping of one race market account.
InitRace ==
    /\ adapter = "none" /\ ThIdle /\ PmIdle /\ BzInit /\ MxInit /\ KxIdle
    /\ BmIdle /\ AuIdle
    /\ brBuf \in RaceBuffers /\ brOffset = 0 /\ brLog = <<>>
SpecRace == InitRace /\ [][RaceNext]_vars

\* The calls of the core module under params that sort and paginate.
SortedParams ==
    {[sort |-> k, limit |-> 0, offset |-> 0, searchIn |-> ""] :
         k \in SortKeys \ {"none"}}
        \cup {[sort |-> "volume", limit |-> 1, offset |-> 1, searchIn |-> "both"]}
InitKalshiSorted ==
    /\ adapter = "none" /\ ThIdle /\ PmIdle /\ BzInit /\ MxInit /\ BxIdle
    /\ KxInit
    /\ kxVersion = "core"
    /\ kxVendor = "listed"
    /\ kxParams \in SortedParams
SpecKalshiSorted == InitKalshiSorted /\ [][KxNext]_vars

\* The Baozi mappers applied to a market account, and the order books built
\* from the mapped market.
InitBaoziMap ==
    /\ adapter = "none" /\ ThIdle /\ PmIdle /\ BzInit /\ MxInit /\ KxIdle
    /\ BmInit /\ BrIdle /\ AuIdle
SpecBaoziMap == InitBaoziMap /\ [][BmNext]_vars

\* A BorshReader over a buffer and the reads called on it.
InitBorsh ==
    /\ adapter = "none" /\ ThIdle /\ PmIdle /\ BzInit /\ MxInit /\ KxIdle
    /\ BmIdle /\ BrInit /\ AuIdle
SpecBorsh == InitBorsh /\ [][BrNext]_vars

\* An exchange instance built with or without credentials and the private
\* calls made on it.
InitPrivate ==
    /\ adapter = "none" /\ ThIdle /\ PmIdle /\ BzInit /\ MxInit /\ KxIdle
    /\ BmIdle /\ BrIdle /\ AuInit
SpecPrivate == InitPrivate /\ [][AuNext]_vars

(***************************************************************************)
(* Throttler claims.                                                       *)
(***************************************************************************)

\* C1: calls are granted in exactly the order in which throttle() was called,
\* whatever their costs: the i-th grant is the i-th call.
C1_GrantsInArrivalOrder == \A i \in 1..Len(grants) : grants[i].id = i

\* A costlier call was granted from the head of a queue that held a cheaper,
\* later call behind it.
C1_Witness ==
    \E i \in 1..Len(grants) - 1 :
        /\ grants[i].qlen >= 2
        /\ grants[i].cost > grants[i + 1].cost

\* C2: with the timer firing, every throttle() call is eventually granted,
\* also one whose cost exceeds the capacity.
C2_EveryCallGranted ==
    \A i \in 1..MaxCalls :
        (calls >= i) ~> (\E j \in 1..Len(grants) : grants[j].id = i)

\* A call costing more than the capacity was granted after it had to wait.
C2_Witness ==
    \E j \in 2..Len(grants) :
        /\ grants[j].cost > capacity
        /\ grants[j].gap > 0
        /\ grants[j - 1].qlen >= 2

\* C3: with capacity 1 and cost-1 requests, two consecutive grants are at
\* least 1/refillRate ms apart.
C3_GrantsSpacedByRefillTime ==
    (capacity = 1 /\ \A i \in 1..Len(grants) : grants[i].cost = 1)
        => \A i \in 2..Len(grants) : grants[i].gap >= refillMs

\* C4: a request of cost c is granted only when at least c tokens are
\* available.
C4_CostsRespected ==
    \A i \in 1..Len(grants) : grants[i].before >= grants[i].cost * refillMs

\* C5: the token balance never exceeds the capacity.
C5_TokensWithinCapacity == tokens <= capacity * refillMs

\* After an earlier grant the refill brought the balance up to the capacity
\* (a balance that had been idle for at least the time to refill it).
C5_Witness ==
    \E i \in 2..Len(grants) :
        /\ capacity >= 1
        /\ grants[i].before = capacity * refillMs
        /\ grants[i].gap >= refillMs

(***************************************************************************)
(* Realtime channel claims.                                                *)
(***************************************************************************)

\* C6: when PolymarketWebSocket.close() completes, every watch promise that
\* was pending has been rejected and no pending resolver remains.
C6_PmCloseRejectsPending ==
    [][pmCloses' # pmCloses =>
          /\ \A id \in AssetIds : /\ orderBookResolvers'[id] = <<>>
                                  /\ tradeResolvers'[id] = <<>>
          /\ \A w \in Watchers : pmCallers'[w].pc # "pending"]_vars

\* C7: when BaoziWebSocket.close() completes, the connection holds no
\* account-change listener of the channel, the subscriptions map is empty,
\* no resolver is left and every promise that was pending is rejected,
\* whatever arrived while close() was awaiting a removal.
C7_BzCloseTearsDown ==
    [][bzCloses' # bzCloses =>
          /\ bzListeners' = {}
          /\ bzSubscriptions' = <<>>
          /\ \A k \in OutcomeIds : bzResolvers'[k] = <<>>
          /\ \A w \in Watchers :
                 bzCallers[w].pc = "pending" => bzCallers'[w].pc = "rejected"]_vars

\* A watch call that arrived while close() awaited a removal, and registered
\* a listener of its own, was rejected, and no listener is left.
C7_Witness ==
    /\ bzCloses >= 1
    /\ bzListeners = {}
    /\ \E w \in Watchers : /\ bzCallers[w].pc = "rejected"
                           /\ bzCallers[w].duringClose
                           /\ bzCallers[w].newSub

\* C8: for one asset id at most one addSubscriptions request is issued
\* (between two clearState calls), however the watch calls interleave.
C8_OneSubscriptionRequestPerId == \A id \in AssetIds : pmRequests[id] <= 1

\* C9: the connection holds at most one account-change listener per market
\* account.
C9_OneListenerPerMarket ==
    \A m \in Markets : Cardinality({l \in bzListeners : l.key[1] = m}) <= 1

\* Two watch calls on different outcome ids of one market are pending, the
\* second reused the listener of the first.
C9_Witness ==
    \E v, w \in Watchers :
        /\ bzCallers[v].pc = "pending" /\ bzCallers[w].pc = "pending"
        /\ bzCallers[v].outcomeId # bzCallers[w].outcomeId
        /\ bzCallers[v].outcomeId[1] = bzCallers[w].outcomeId[1]
        /\ bzCallers[v].newSub /\ ~bzCallers[w].newSub
        /\ Cardinality(bzListeners) = 1

\* C10: a watch promise is resolved at most once, and only by an event
\* handled after its resolver was enqueued: never at the call, from the
\* cached state.
C10_ResolvedOnceByLaterEvent ==
    /\ \A w \in Watchers :
           /\ pmCallers[w].resCount <= 1
           /\ pmCallers[w].pc = "resolved" <=> pmCallers[w].resCount = 1
           /\ pmCallers[w].resCount = 1 => pmCallers[w].resAt > pmCallers[w].enqAt
    /\ \A w \in Watchers :
           /\ bzCallers[w].resCount <= 1
           /\ bzCallers[w].pc = "resolved" <=> bzCallers[w].resCount = 1
           /\ bzCallers[w].resCount = 1 => bzCallers[w].resAt > bzCallers[w].enqAt

\* A watchOrderBook call made while a book of its id was cached stayed
\* pending and was resolved by the next event.
C10_Witness ==
    \E w \in Watchers :
        /\ pmCallers[w].cachedAtCall
        /\ pmCallers[w].pc = "resolved"
        /\ pmCallers[w].resAt = pmCallers[w].enqAt + 1

(***************************************************************************)
(* Order-book and trade event claims (PolymarketWebSocket).                *)
(***************************************************************************)
LevelSet(side) == {side[i] : i \in 1..Len(side)}
InList(w, ws) == \E i \in 1..Len(ws) : ws[i] = w
NonIncreasing(side) == \A i \in 1..Len(side) - 1 : side[i].price >= side[i + 1].price
NonDecreasing(side) == \A i \in 1..Len(side) - 1 : side[i].price <= side[i + 1].price

\* C11: handleBookSnapshot for id makes the snapshot the cached book of id
\* whatever was cached, resolves every resolver pending for id with that
\* book and empties the pending list of id; the books and the pending
\* resolvers of the other ids, and the trade resolvers, stay as they were;
\* a call that is not pending for id keeps its state and the book it was
\* given, which only stops being the cached object.
C11_SnapshotReplacesAndResolves ==
    [][\A id \in AssetIds, bids \in SnapshotSides, asks \in SnapshotSides :
          HandleBookSnapshot(id, bids, asks) =>
              /\ LevelSet(orderBooks'[id].bids) = LevelSet(bids)
              /\ Len(orderBooks'[id].bids) = Len(bids)
              /\ LevelSet(orderBooks'[id].asks) = LevelSet(asks)
              /\ Len(orderBooks'[id].asks) = Len(asks)
              /\ orderBookResolvers'[id] = <<>>
              /\ \A w \in Watchers :
                     IF InList(w, orderBookResolvers[id])
                     THEN /\ pmCallers'[w].pc = "resolved"
                          /\ pmCallers'[w].value = orderBooks'[id]
                     ELSE [pmCallers'[w] EXCEPT !.live = FALSE] =
                              [pmCallers[w] EXCEPT !.live = FALSE]
              /\ \A o \in AssetIds \ {id} :
                     /\ orderBooks'[o] = orderBooks[o]
                     /\ orderBookResolvers'[o] = orderBookResolvers[o]
              /\ tradeResolvers' = tradeResolvers]_vars

\* A snapshot of two bids replaced a cached book and resolved the call
\* that was pending for its id, while a call for the other id stayed pending.
C11_Witness ==
    /\ pmLast.handler = "book"
    /\ \E v, w \in Watchers :
           /\ pmCallers[w].kind = "book" /\ pmCallers[w].pc = "resolved"
           /\ pmCallers[w].cachedAtCall
           /\ pmCallers[w].resAt = pmEvents
           /\ pmLast.ids = {pmCallers[w].id}
           /\ pmCallers[w].value = orderBooks[pmCallers[w].id]
           /\ Len(pmCallers[w].value.bids) = 2
           /\ pmCallers[v].kind = "book" /\ pmCallers[v].pc = "pending"
           /\ pmCallers[v].id # pmCallers[w].id
           /\ orderBookResolvers[pmCallers[v].id] = <<v>>

\* C12: every cached book has its bids non-increasing and its asks
\* non-decreasing by price; a delta of size 0 removes the level at its
\* price, a delta of another size sets the size of the level at its price
\* or inserts the level, and the other levels and the other side stay.
C12_DeltasKeepBooksSorted ==
    /\ [](\A id \in AssetIds :
              orderBooks[id] # NoBook =>
                  /\ NonIncreasing(orderBooks[id].bids)
                  /\ NonDecreasing(orderBooks[id].asks))
    /\ [][\A c \in Changes :
              (HandlePriceChange(<<c>>) /\ orderBooks[c.id] # NoBook) =>
                  LET old == orderBooks[c.id]
                      new == orderBooks'[c.id]
                      was == IF c.side = "BUY" THEN old.bids ELSE old.asks
                      now == IF c.side = "BUY" THEN new.bids ELSE new.asks
                  IN  /\ LevelSet(now) =
                             {l \in LevelSet(was) : l.price # c.price}
                                 \cup (IF c.size = 0 THEN {}
                                       ELSE {[price |-> c.price, size |-> c.size]})
                      /\ Len(now) = Cardinality(LevelSet(now))
                      /\ IF c.side = "BUY" THEN new.asks = old.asks
                                           ELSE new.bids = old.bids]_vars

\* A delta inserted a bid above the only bid of a cached book: the book now
\* has the new bid first.
C12_Witness ==
    /\ pmLast.handler = "price"
    /\ pmEvents = 2
    /\ \E v \in Watchers :
           /\ pmCallers[v].kind = "book" /\ pmCallers[v].resAt = 1
           /\ pmLast.ids = {pmCallers[v].id}
           /\ Len(pmCallers[v].value.bids) = 1
           /\ pmCallers[v].value.bids[1].price = 1
           /\ Len(orderBooks[pmCallers[v].id].bids) = 2
           /\ orderBooks[pmCallers[v].id].bids[1].price = 2

\* The changes of an event that name id, in their order.
RECURSIVE ChangesFor(_, _)
ChangesFor(changes, id) ==
    IF changes = <<>> THEN <<>>
    ELSE (IF Head(changes).id = id THEN <<Head(changes)>> ELSE <<>>)
             \o ChangesFor(Tail(changes), id)

\* A book after the changes cs, all for its id.
RECURSIVE BookAfter(_, _)
BookAfter(book, cs) ==
    IF cs = <<>> THEN book
    ELSE LET c == Head(cs)
         IN  BookAfter(IF c.side = "BUY"
                       THEN [book EXCEPT !.bids = ApplyChange(@, c.side, c.price, c.size)]
                       ELSE [book EXCEPT !.asks = ApplyChange(@, c.side, c.price, c.size)],
                       Tail(cs))

\* C13: a price-change event that names an id with no cached book leaves
\* that id as it was (no book, the same pending resolvers, none of them
\* resolved) and applies its changes for the ids with a cached book.
C13_DeltaWithoutSnapshotIsNoOp ==
    [][(/\ pmEvents' = pmEvents + 1
        /\ pmLast'.handler = "price"
        /\ \E id \in pmLast'.ids : orderBooks[id] = NoBook) =>
          \A cs \in ChangeSeqs :
              HandlePriceChange(cs) =>
                  \A id \in AssetIds :
                      IF orderBooks[id] = NoBook
                      THEN /\ orderBooks'[id] = NoBook
                           /\ orderBookResolvers'[id] = orderBookResolvers[id]
                           /\ \A w \in Watchers :
                                  InList(w, orderBookResolvers[id]) =>
                                      pmCallers'[w] = pmCallers[w]
                      ELSE orderBooks'[id] =
                               BookAfter(orderBooks[id], ChangesFor(cs, id))]_vars

\* One event named both ids: the id without a book still has none and its
\* call is still pending, the call for the id with a book was resolved by
\* the event.
C13_Witness ==
    /\ pmLast = [handler |-> "price", ids |-> AssetIds]
    /\ \E v, w \in Watchers :
           /\ pmCallers[v].kind = "book" /\ pmCallers[v].pc = "pending"
           /\ pmCallers[v].enqAt < pmEvents
           /\ orderBooks[pmCallers[v].id] = NoBook
           /\ orderBookResolvers[pmCallers[v].id] = <<v>>
           /\ pmCallers[w].kind = "book" /\ pmCallers[w].pc = "resolved"
           /\ pmCallers[w].resAt = pmEvents
           /\ pmCallers[w].value = orderBooks[pmCallers[w].id]

\* C14: a pending watchTrades call is on the list of its id; handleTrade
\* for id resolves every call pending for trades of id with the list of
\* that one trade and empties the list of id; the calls and lists of the
\* other ids, the order-book resolvers and the books stay as they were (a
\* trade nobody waits for leaves no trace).
C14_TradeResolvesPendingWithOneTrade ==
    /\ [](\A w \in Watchers :
              (pmCallers[w].kind = "trades" /\ pmCallers[w].pc = "pending")
                  => InList(w, tradeResolvers[pmCallers[w].id]))
    /\ [][\A id \in AssetIds, t \in TradePayloads :
              HandleTrade(id, t.price, t.size) =>
                  /\ tradeResolvers'[id] = <<>>
                  /\ \A o \in AssetIds \ {id} : tradeResolvers'[o] = tradeResolvers[o]
                  /\ \A w \in Watchers :
                         IF /\ pmCallers[w].kind = "trades"
                            /\ pmCallers[w].pc = "pending"
                            /\ pmCallers[w].id = id
                         THEN /\ pmCallers'[w].pc = "resolved"
                              /\ pmCallers'[w].value =
                                     <<[price |-> t.price, amount |-> t.size]>>
                         ELSE pmCallers'[w] = pmCallers[w]
                  /\ orderBookResolvers' = orderBookResolvers
                  /\ orderBooks' = orderBooks]_vars

\* Two watchTrades calls on one id were resolved by two trade events, each
\* with the one trade of its event.
C14_Witness ==
    /\ pmLast.handler = "trade"
    /\ \E v, w \in Watchers :
           /\ pmCallers[v].kind = "trades" /\ pmCallers[w].kind = "trades"
           /\ pmCallers[v].id = pmCallers[w].id
           /\ pmCallers[v].resAt = 1 /\ pmCallers[w].resAt = 2
           /\ Len(pmCallers[v].value) = 1 /\ Len(pmCallers[w].value) = 1
           /\ pmCallers[v].value # pmCallers[w].value

(***************************************************************************)
(* Market cache claims (BaseExchange).                                     *)
(***************************************************************************)

\* C15: a loadMarkets() call without reload on a loaded cache calls the
\* adapter no more and returns the cached map; loadMarkets(true) calls the
\* adapter once more, whatever the state of the cache; calls without reload
\* alone make one adapter fetch in all.
C15_LoadOnceReloadAlways ==
    /\ []((\A c \in Callers : mxCallers[c].op \in {"none", "load"} /\ cacheGen = 0)
              => fetchMarketsCallCount <= 1)
    /\ [][\A c \in Callers, reload \in BOOLEAN :
              MxLoadMarkets(c, reload) =>
                  /\ (loadState = "LOADED" /\ ~reload) =>
                         /\ fetchMarketsCallCount' = fetchMarketsCallCount
                         /\ mxCallers'[c].pc = "done"
                         /\ mxCallers'[c].result = markets
                         /\ markets' = markets /\ marketsBySlug' = marketsBySlug
                  /\ reload => fetchMarketsCallCount' = fetchMarketsCallCount + 1]_vars

\* After one load, two further calls without reload were served the cached
\* map: the adapter was called once.
C15_Witness ==
    /\ fetchMarketsCallCount = 1
    /\ loadState = "LOADED"
    /\ \E b, c \in Callers :
           /\ b # c
           /\ mxCallers[b].op = "load" /\ mxCallers[b].hit
           /\ mxCallers[c].op = "load" /\ mxCallers[c].hit
           /\ mxCallers[b].result = markets /\ mxCallers[c].result = markets
           /\ markets["m1"] # NoMarket

\* The cache holds the whole result of one adapter fetch, or nothing.
CacheWhole ==
    \/ /\ markets = [id \in MarketIds |-> NoMarket]
       /\ marketsBySlug = [g \in Slugs |-> NoMarket]
    \/ \E v \in 1..2, n \in 1..fetchMarketsCallCount :
           /\ markets = IndexById(Built(Venue(v), n))
           /\ \A g \in Slugs :
                  marketsBySlug[g] =
                      IF \E id \in MarketIds : markets[id] # NoMarket /\ markets[id].slug = g
                      THEN markets[CHOOSE id \in MarketIds :
                                       markets[id] # NoMarket /\ markets[id].slug = g]
                      ELSE NoMarket

C17_FetchMarketCacheFirst ==
    [][/\ \A c \in Callers, lookup \in Lookups :
              MxFetchMarket(c, lookup) =>
                  LET cached == IF lookup.marketId # "" THEN markets[lookup.marketId]
                                ELSE marketsBySlug[lookup.slug]
                  IN  IF loadState = "LOADED" /\ cached # NoMarket
                      THEN /\ fetchMarketsCallCount' = fetchMarketsCallCount
                           /\ mxFetches' = mxFetches
                           /\ mxCallers'[c].pc = "done"
                           /\ mxCallers'[c].result = cached
                      ELSE /\ fetchMarketsCallCount' = fetchMarketsCallCount + 1
                           /\ mxCallers'[c].pc = "waiting"
                           /\ \E f \in mxFetches' \ mxFetches :
                                  /\ f.params = lookup
                                  /\ f.n = mxCallers'[c].on
                                  /\ mxFetches' = mxFetches \cup {f}
       /\ \A f \in mxFetches :
              (MxFetchDone(f) /\ f.kind = "market") =>
                  LET found == {i \in 1..Len(Venue(venue)) :
                                    /\ f.params.marketId # "" =>
                                           Venue(venue)[i].marketId = f.params.marketId
                                    /\ f.params.slug # "" =>
                                           Venue(venue)[i].slug = f.params.slug}
                  IN  \A c \in Callers :
                          (mxCallers[c].pc = "waiting" /\ mxCallers[c].on = f.n) =>
                              IF found = {}
                              THEN /\ mxCallers'[c].pc = "failed"
                                   /\ mxCallers'[c].result = [error |-> "MarketNotFound"]
                              ELSE /\ mxCallers'[c].pc = "done"
                                   /\ mxCallers'[c].result.marketId =
                                          Venue(venue)[CHOOSE i \in found :
                                                           \A j \in found : i <= j].marketId
                                   /\ mxCallers'[c].result.obj = f.n]_vars

\* On a loaded cache one fetchMarket was served the cached object and
\* another, for a market the cache lacks, failed with MarketNotFound after
\* its own adapter fetch.
C17_Witness ==
    /\ loadState = "LOADED"
    /\ fetchMarketsCallCount = 2
    /\ \E b, c \in Callers :
           /\ mxCallers[b].op = "market" /\ mxCallers[b].hit
           /\ mxCallers[b].result \in {markets[id] : id \in MarketIds}
           /\ mxCallers[c].op = "market" /\ mxCallers[c].pc = "failed"
           /\ mxCallers[c].result = [error |-> "MarketNotFound"]

(***************************************************************************)
(* Kalshi fetchMarkets claims.                                             *)
(***************************************************************************)
KxIds(list) == [i \in 1..Len(list) |-> list[i].marketId]

\* The markets the vendor holds under a status, over all its pages.
VendorIds(status) == IF status = "open" THEN <<"K1", "K2", "K3">> ELSE <<"K9">>

\* Call c is answered from the cache entry of status: no request, the stored
\* list itself, the cache as it was.
ServedFromCache(c, status) ==
    /\ kxRequests' = kxRequests
    /\ kxCalls'[c].pc = "done"
    /\ kxCalls'[c].all = globalMarketCache[status]
    /\ globalMarketCache' = globalMarketCache

\* Call c starts the whole sequence again: the series request and the
\* request of the first page.
Refetches(c, status) ==
    /\ kxRequests' = kxRequests + 2
    /\ kxCalls'[c].pc = "page"
    /\ kxCalls'[c].series = "pending"
    /\ kxCalls'[c].cursor = "" /\ kxCalls'[c].events = <<>>

\* A run of fetchAllActiveMarkets that ends well went through every page and
\* leaves its list under its status, the other status as it was.
RunsStoreTheirList ==
    \A c \in KxCallIds :
        /\ kxVersion = "core"
        /\ kxCalls[c].pc \in {"page", "series"}
        /\ kxCalls'[c].pc = "done"
        => /\ KxIds(kxCalls'[c].all.items) = VendorIds(kxCalls[c].status)
           /\ globalMarketCache'[kxCalls[c].status] = kxCalls'[c].all
           /\ \A s \in Statuses \ {kxCalls[c].status} :
                  globalMarketCache'[s] = globalMarketCache[s]

\* C18 (as stated): a call of fetchAllActiveMarkets for a status whose list
\* was stored less than CACHE_TTL ago returns the stored list and issues no
\* request; any other call issues the series request and the first page
\* request again, and a run that ends well stores its list under its status.
C18_HitWithinTtlOfStoring ==
    [][/\ \A c \in KxCallIds, status \in Statuses :
              KxFetchMarkets(c, "list", status) /\ kxVersion = "core" =>
                  IF /\ globalMarketCache[status] # NoList
                     /\ kxNow - kxStoredAt[status] < CACHE_TTL
                  THEN ServedFromCache(c, status)
                  ELSE Refetches(c, status)
       /\ RunsStoreTheirList]_vars

\* C18 (amended): the age of a cache entry counts from the start of the run
\* that built it, not from the moment it was stored: a call for a status
\* whose stored list was built by a run that began less than CACHE_TTL ago
\* returns the stored list and issues no request; any other call issues the
\* series request and the first page request again, and a run that ends well
\* stores its list under its status.
C18_HitWithinTtlOfRunStart ==
    [][/\ \A c \in KxCallIds, status \in Statuses :
              KxFetchMarkets(c, "list", status) /\ kxVersion = "core" =>
                  IF /\ globalMarketCache[status] # NoList
                     /\ kxNow - kxCalls[globalMarketCache[status].by].start < CACHE_TTL
                  THEN ServedFromCache(c, status)
                  ELSE Refetches(c, status)
       /\ RunsStoreTheirList]_vars

\* Call 1 ran for a while and stored its list; later, within CACHE_TTL of its
\* start, call 2 was served that list without a request.
C18_Witness ==
    /\ kxVersion = "core"
    /\ kxCalls[1].pc = "done" /\ ~kxCalls[1].hit /\ kxCalls[1].path = "list"
    /\ kxCalls[2].pc = "done" /\ kxCalls[2].hit /\ kxCalls[2].path = "list"
    /\ kxCalls[2].all = kxCalls[1].all
    /\ kxCalls[2].sent = 0
    /\ kxCalls[2].start > kxCalls[1].start
    /\ kxStoredAt[kxCalls[1].status] > kxCalls[1].start

\* C19: when a page request of the cursor pagination fails, the call of
\* fetchMarkets fails: it never ends well, with the markets of the pages
\* fetched before the failure or with no market at all.
C19_PageFailurePropagates ==
    \A c \in KxCallIds :
        kxCalls[c].path \in {"list", "query"} /\ kxCalls[c].primaryFailed
            => kxCalls[c].pc = "failed"

\* C20: a failed enrichment request (the series registry, the series lookup
\* of a slug, the parent-event lookup of a native search) never fails the
\* call: a call whose primary requests all succeeded ends well, with the
\* markets of every primary record it fetched.
C20_EnrichmentNeverFailsTheFetch ==
    \A c \in KxCallIds :
        LET r == kxCalls[c]
        IN  /\ r.pc = "failed" => r.primaryFailed
            /\ r.pc = "done" /\ r.path = "query" /\ ~r.fellBack /\ ~r.primaryFailed
                   => KxIds(r.result) =
                          [i \in 1..Len(NativeFound(r.status)) |->
                              NativeFound(r.status)[i].ticker]
            /\ r.pc = "done" /\ r.path = "slug" /\ ~r.primaryFailed
                   => KxIds(r.result) = EventOf(Slug).markets

\* The page requests of call c in flight.
InFlightOf(c) == {q \in kxInFlight : q.call = c}

\* C21: a pagination run never has more than one page request in flight; its
\* first request carries no cursor, and every later one is issued when the
\* answer to the one before it arrives and carries the cursor of that answer.
C21_OnePageRequestAtATime ==
    /\ [](\A c \in KxCallIds : Cardinality(InFlightOf(c)) <= 1)
    /\ [][\A q \in kxInFlight' \ kxInFlight :
              \/ /\ InFlightOf(q.call) = {}
                 /\ kxCalls[q.call].pc \in {"idle", "native"}
                 /\ q.cursor = ""
              \/ \E old \in InFlightOf(q.call) :
                     /\ old \notin kxInFlight'
                     /\ q.cursor = Page(kxCalls[q.call].status, old.cursor).cursor]_vars

\* Two runs paginate at once; one of them got its first page and has the
\* request of its second page, with the cursor of the first, in flight.
C21_Witness ==
    /\ Cardinality(kxInFlight) = 2
    /\ \E q \in kxInFlight :
           /\ q.cursor = "c1"
           /\ kxCalls[q.call].page = 1
           /\ kxCalls[q.call].sent >= 2

\* The cap on the pages of a run and the market count at which it stops.
PageCap == IF kxVersion = "legacy" THEN 1000 ELSE 100
MarketTarget ==
    IF kxVersion = "legacy"
    THEN 2 * (IF kxParams.limit # 0 THEN kxParams.limit ELSE 50)
    ELSE 7500

\* What call 1 can still do: twice the page requests it may still issue,
\* plus the answers it waits for.
StepsLeft ==
    LET r == kxCalls[1]
    IN  IF r.pc \in {"done", "failed"} THEN 0
        ELSE IF r.pc \in {"series", "slug"} THEN 1
        ELSE IF r.pc = "page"
             THEN 2 * (PageCap - r.asked) + 2 + (IF r.series = "pending" THEN 1 ELSE 0)
        ELSE IF r.pc = "native" THEN 2 * PageCap + 4
        ELSE 2 * PageCap + 5

\* C22: whatever the vendor answers, a pagination run ends: it issues at most
\* MAX_PAGES page requests (100, legacy 1000), every step of the call brings
\* it nearer to its end (StepsLeft, never negative, decreases), and it issues
\* no further request after a page with no events, after an answer with an
\* empty cursor or once the nested markets received reach the target (7500,
\* legacy twice the limit).
C22_PaginationTerminates ==
    /\ [](kxCalls[1].asked <= PageCap /\ StepsLeft >= 0)
    /\ [][StepsLeft' < StepsLeft]_vars
    /\ [][\A q \in InFlightOf(1) :
              LET resp == Page(kxCalls[1].status, q.cursor)
                  count == CountMarkets(kxCalls[1].events) + CountMarkets(resp.events)
              IN  /\ KxPageOk(1)
                  /\ \/ resp.events = <<>>
                     \/ resp.cursor = ""
                     \/ count >= MarketTarget
                  => /\ InFlightOf(1)' = {}
                     /\ kxCalls'[1].asked = kxCalls[1].asked]_vars

\* A run against a vendor that never runs out of pages ended at the cap:
\* its MAX_PAGES requests were all answered with events and a cursor.
C22_Witness ==
    /\ kxVendor = "hollow"
    /\ kxCalls[1].pc = "done"
    /\ kxCalls[1].asked = PageCap
    /\ Len(kxCalls[1].events) = PageCap
    /\ kxCalls[1].cursor # ""

\* The vendor's markets whose title, description or either contains the
\* query "Fe" whatever the case: "fEd" and "fe" are titles of K1 and K9, "FE"
\* is the description of K2 and K3.
QueryHits(searchIn) ==
    IF searchIn \in {"", "title"} THEN {"K1", "K9"}
    ELSE IF searchIn = "description" THEN {"K2", "K3"}
    ELSE {"K1", "K2", "K3", "K9"}

\* C23: when the native search request of a query call fails, the call does
\* not fail with that error: it goes on to fetchAllActiveMarkets, and ends
\* with the markets of that list whose title / description (as searchIn
\* says, title when not given) contains the query in any case, sorted and
\* paginated as usual; it fails only if the fallback fetch fails.
C23_NativeFailureFallsBack ==
    /\ [](\A c \in KxCallIds :
              LET r == kxCalls[c]
              IN  /\ r.fellBack /\ r.pc = "done" =>
                      r.result = ApplyFiltersAndPagination(
                                     SelectSeq(r.all.items,
                                         LAMBDA m : m.marketId \in
                                                        QueryHits(kxParams.searchIn)),
                                     kxParams)
                  /\ r.fellBack /\ r.pc = "failed" =>
                      r.primaryFailed \/ r.enrichFailed)
    /\ [][\A c \in KxCallIds :
              KxNativeDone(c, FALSE, {}) =>
                  /\ kxCalls'[c].fellBack
                  /\ kxCalls'[c].pc \in {"page", "done"}
                  /\ kxCalls'[c].pc = "done" =>
                         kxCalls'[c].all = globalMarketCache[kxCalls[c].status]]_vars

\* A query call whose native search failed ended with the two markets that
\* match by description only.
C23_Witness ==
    /\ kxParams.searchIn = "description"
    /\ kxCalls[1].path = "query" /\ kxCalls[1].fellBack /\ kxCalls[1].pc = "done"
    /\ KxIds(kxCalls[1].result) \in {<<"K2", "K3">>, <<"K3", "K2">>}

\* The value of the sort key of market m.
KeyOf(m, key) ==
    IF key = "volume" THEN m.volume24h
    ELSE IF key = "liquidity" THEN m.liquidity
    ELSE IF key = "newest" THEN m.resolutionDate
    ELSE 0

\* The place of the i-th market of src once src is sorted descending by key
\* with ties left in the order of src.
RankIn(src, i, key) ==
    1 + Cardinality({j \in 1..Len(src) : KeyOf(src[j], key) > KeyOf(src[i], key)})
      + Cardinality({j \in 1..i - 1 : KeyOf(src[j], key) = KeyOf(src[i], key)})

\* list holds the places offset+1 .. offset+limit of src so sorted.
IsSortedPageOf(list, src, params) ==
    LET limit == IF params.limit # 0 THEN params.limit ELSE 50
        upTo == IF Len(src) < params.offset + limit THEN Len(src)
                ELSE params.offset + limit
    IN  /\ Len(list) = (IF upTo > params.offset THEN upTo - params.offset ELSE 0)
        /\ Len(list) <= limit
        /\ \A k \in 1..Len(list) :
               \E i \in 1..Len(src) :
                   /\ RankIn(src, i, params.sort) = params.offset + k
                   /\ list[k] = src[i]

\* C24: what a list, fallback-search or native-search call of the core module
\* returns is its enriched result set sorted descending by the requested
\* key, ties in their original order, cut to the places [offset,
\* offset+limit), limit 50 when not given.  The result set is the whole
\* list, the markets of the list that match the query, or the markets the
\* native search returned (every parent event fetched).
C24_SortedThenSliced ==
    \A c \in KxCallIds :
        LET r == kxCalls[c]
            found == NativeFound(r.status)
        IN  kxVersion = "core" /\ r.pc = "done" =>
                /\ r.path = "list" => IsSortedPageOf(r.result, r.all.items, kxParams)
                /\ r.path = "query" /\ r.fellBack =>
                       IsSortedPageOf(r.result,
                           SelectSeq(r.all.items,
                               LAMBDA m : m.marketId \in QueryHits(kxParams.searchIn)),
                           kxParams)
                /\ r.path = "query" /\ ~r.fellBack /\ ~r.enrichFailed =>
                       IsSortedPageOf(r.result,
                           [i \in 1..Len(found) |->
                               MapMarketToUnified(EventOf(found[i].event_ticker),
                                                  found[i].ticker)],
                           kxParams)

\* A list call sorted by volume with offset 1 and limit 1: of K1, K2, K3 with
\* volumes 1, 2, 1 it returned K1, the first of the two that tie.
C24_Witness ==
    /\ kxVersion = "core" /\ kxVendor = "listed"
    /\ kxParams.sort = "volume" /\ kxParams.offset = 1 /\ kxParams.limit = 1
    /\ kxCalls[1].path = "list" /\ kxCalls[1].pc = "done"
    /\ KxIds(kxCalls[1].all.items) = <<"K1", "K2", "K3">>
    /\ KxIds(kxCalls[1].result) = <<"K1">>

(***************************************************************************)
(* Baozi mapping claims.                                                   *)
(***************************************************************************)
\* A price as the claims state it: a number between 0 and 1.
InUnitInterval(x) == IsFinite(x) /\ 0 <= x.n /\ x.n <= x.d
\* The sum of the prices of outcomes 1..i as an unreduced fraction, by cross
\* multiplication.
RECURSIVE FractionSum(_, _)
FractionSum(outcomes, i) ==
    IF i = 0 THEN [n |-> 0, d |-> 1]
    ELSE LET s == FractionSum(outcomes, i - 1)
             p == outcomes[i].price
         IN  [n |-> s.n * p.d + p.n * s.d, d |-> s.d * p.d]
SumsToOne(outcomes) ==
    LET s == FractionSum(outcomes, Len(outcomes)) IN s.d > 0 /\ s.n = s.d
BooksDelivered == {"fetchOrderBook", "watchOrderBook"}

\* C25: every order book returned by fetchOrderBook or delivered by
\* watchOrderBook has 0 <= price <= 1 and size > 0 on every level of both
\* sides, whatever the state of the market (here: the Baozi synthetic books).
C25_BookLevelsValid ==
    (bmBook.via \in BooksDelivered /\ bmBook.error = Ok) =>
        \A side \in {bmBook.bids, bmBook.asks} : \A i \in 1..Len(side) :
            /\ InUnitInterval(side[i].price)
            /\ IsFinite(side[i].size)
            /\ side[i].size.n > 0

\* The Polymarket books: under a vendor whose book events carry
\* positive sizes, every level kept in orderBooks has a positive size.
PolymarketLevelsPositive ==
    \A id \in AssetIds :
        orderBooks[id] # NoBook =>
            \A side \in {orderBooks[id].bids, orderBooks[id].asks} :
                \A i \in 1..Len(side) : side[i].size > 0

\* C26: mapBooleanToUnified prices each side from the opposite pool: for all
\* pool values the YES price is noPool / (yesPool + noPool) and the NO price
\* is yesPool / (yesPool + noPool), both are 1/2 when the total pool is zero;
\* both prices lie in [0,1] and sum to 1, and market.yes and market.no are the
\* entries of outcomes that carry those prices, not copies of them.
C26_BooleanPricesFromOppositePools ==
    (bmAccount.kind = "boolean" /\ bmUnified # NoUnified) =>
        LET total == bmAccount.yesPool + bmAccount.noPool
            yes == bmUnified.outcomes[1]
            no == bmUnified.outcomes[2]
        IN  /\ Len(bmUnified.outcomes) = 2
            /\ yes.outcomeId = OutcomeId(MarketPubkey, "YES")
            /\ no.outcomeId = OutcomeId(MarketPubkey, "NO")
            /\ IsFinite(yes.price) /\ IsFinite(no.price)
            /\ IF total = 0
               THEN /\ 2 * yes.price.n = yes.price.d
                    /\ 2 * no.price.n = no.price.d
               ELSE /\ yes.price.n * total = bmAccount.noPool * yes.price.d
                    /\ no.price.n * total = bmAccount.yesPool * no.price.d
            /\ InUnitInterval(yes.price)
            /\ InUnitInterval(no.price)
            /\ SumsToOne(bmUnified.outcomes)
            /\ bmUnified.yes = Ref(1)
            /\ bmUnified.no = Ref(2)
\* A boolean market with unequal pools was mapped.
C26_Witness ==
    /\ bmAccount.kind = "boolean"
    /\ bmAccount.yesPool = 1
    /\ bmAccount.noPool = MaxPool
    /\ bmUnified # NoUnified
    /\ bmUnified.outcomes[1].price = Num(MaxPool, MaxPool + 1)

\* C27: mapRaceToUnified gives, for every race market of outcomeCount >= 1 and
\* any pool values, final outcome prices that each lie in [0,1] and that sum
\* to 1.
C27_RacePricesNormalised ==
    (bmAccount.kind = "race" /\ bmUnified # NoUnified) =>
        /\ Len(bmUnified.outcomes) = bmAccount.outcomeCount
        /\ \A i \in 1..Len(bmUnified.outcomes) :
               InUnitInterval(bmUnified.outcomes[i].price)
        /\ SumsToOne(bmUnified.outcomes)
\* The same for the race markets of two outcomes or more whose totalPool is
\* the sum of their pools.
RacePricesNormalisedWhenConsistent ==
    (/\ bmAccount.kind = "race"
     /\ bmUnified # NoUnified
     /\ bmAccount.outcomeCount >= 2
     /\ bmAccount.totalPool = SumPools(bmAccount.outcomePools, bmAccount.outcomeCount))
        => /\ \A i \in 1..Len(bmUnified.outcomes) :
                  InUnitInterval(bmUnified.outcomes[i].price)
           /\ SumsToOne(bmUnified.outcomes)

(***************************************************************************)
(* BorshReader claims.                                                     *)
(***************************************************************************)
OptionReads ==
    {"readOptionBool", "readOptionU8", "readOptionPubkey", "readOptionFixedBytes"}
\* The width of the payload of an option read.
PayloadWidth(e) ==
    CASE e.op \in {"readOptionBool", "readOptionU8"} -> 1
      [] e.op = "readOptionPubkey" -> 32
      [] e.op = "readOptionFixedBytes" -> e.len
\* The width of the type read by the logged call e, as the Borsh layout gives
\* it from the bytes at e.at: a string is its 4-byte length prefix and that
\* many bytes, an option its flag byte and, unless the flag is 0, its payload.
TypeWidth(e) ==
    CASE e.op \in {"readU8", "readBool"} -> 1
      [] e.op = "readU16" -> 2
      [] e.op \in {"readU64", "readI64"} -> 8
      [] e.op = "readPubkey" -> 32
      [] e.op = "readString" ->
             IF e.at + 4 > Len(brBuf) THEN 4
             ELSE 4 + brBuf[e.at + 1] + 256 * brBuf[e.at + 2]
                    + 65536 * brBuf[e.at + 3] + 16777216 * brBuf[e.at + 4]
      [] e.op \in OptionReads ->
             IF e.at + 1 > Len(brBuf) THEN 1
             ELSE IF brBuf[e.at + 1] = 0 THEN 1
             ELSE 1 + PayloadWidth(e)
      [] e.op \in {"readFixedBytes", "skip"} -> e.len
\* The bytes consumed by the reads a call performed: the width of its type
\* when it returned; when it threw, nothing, or the flag byte of an option
\* whose payload read threw.
PerformedWidth(e) ==
    IF e.outcome = "value" THEN TypeWidth(e)
    ELSE IF e.op \in OptionReads /\ e.at < Len(brBuf) THEN 1
    ELSE 0
RECURSIVE WidthsUpTo(_)
WidthsUpTo(i) == IF i = 0 THEN 0 ELSE WidthsUpTo(i - 1) + PerformedWidth(brLog[i])
\* The offset the i-th call left.
OffsetAfter(i) == IF i = Len(brLog) THEN brOffset ELSE brLog[i + 1].at

\* C28: every read advances the cursor by exactly the width of its type
\* (readU8 and readBool 1, readU16 2, readU64 and readI64 8, readPubkey 32,
\* readString 4 + length prefix, option reads 1 when the flag byte is 0 and
\* 1 + payload width otherwise, readFixedBytes(n) and skip(n) n), and after
\* any sequence of reads getOffset() is the sum of the widths read.
C28_ReadsAdvanceByTypeWidth ==
    /\ \A i \in 1..Len(brLog) :
           OffsetAfter(i) - brLog[i].at = PerformedWidth(brLog[i])
    /\ GetOffset = WidthsUpTo(Len(brLog))
\* Three reads returned: a present optional pubkey, then a string of two
\* bytes or a u16 among the others.
C28_Witness ==
    /\ Len(brLog) = MaxReads
    /\ \A i \in 1..Len(brLog) : brLog[i].outcome = "value"
    /\ brLog[1].op = "readOptionPubkey"
    /\ brBuf[1] # 0
    /\ brLog[2].op = "readU16"
    /\ brLog[MaxReads].op = "skip"
    /\ GetOffset = 33 + 2 + brLog[MaxReads].len
    /\ brLog[MaxReads].len > 0

\* C29: a read that would pass the end of the buffer fails with an error,
\* whatever its type; no read returns a truncated, empty or zero-filled value
\* and the cursor is never left beyond the buffer length.
C29_ReadPastEndFails ==
    /\ \A i \in 1..Len(brLog) :
           brLog[i].at + TypeWidth(brLog[i]) > Len(brBuf) =>
               brLog[i].outcome = "error"
    /\ GetOffset <= Len(brBuf)

(***************************************************************************)
(* Private-call claims.                                                    *)
(***************************************************************************)
\* The instance was constructed without the credentials its private calls
\* need: none at all, or none of the keys the exchange signs with.
LacksCredentials ==
    \/ ~auCredentials.given
    \/ ~auCredentials.privateKey
    \/ auExchange = "kalshi" /\ ~auCredentials.apiKey

\* C30: a trading or private-data call on an adapter constructed without
\* credentials (BaoziExchange.fetchBalance, fetchPositions, createOrder;
\* KalshiExchange.fetchBalance) fails with AuthenticationError, and no network
\* or RPC request is issued before the failure.
C30_NoCredentialsFailsBeforeAnyRequest ==
    LacksCredentials =>
        /\ \A i \in 1..Len(auLog) :
               /\ auLog[i].outcome = "AuthenticationError"
               /\ auLog[i].sent = 0
        /\ auRequests = 0
\* createOrder, then fetchBalance, were called on a BaoziExchange built
\* without credentials.
C30_Witness ==
    /\ auExchange = "baozi"
    /\ ~auCredentials.given
    /\ Len(auLog) = MaxPrivateCalls
    /\ auLog[1].op = "createOrder"
    /\ auLog[1].outcome = "AuthenticationError"
    /\ auLog[MaxPrivateCalls].op = "fetchBalance"
    /\ auLog[MaxPrivateCalls].outcome = "AuthenticationError"


(***************************************************************************)
(* Throttler: the consumer loop and the balance.                           *)
(***************************************************************************)

\* C35: at most one consumer loop is active at any time; at every suspension
\* point a non-empty queue has a loop active, with running true; running
\* becomes false only when the queue is empty; and a throttle() call starts
\* exactly one new loop when running is false, none when it is true.
C35_SingleConsumerLoop ==
    /\ [](/\ loops <= 1
          /\ running <=> loops = 1
          /\ queue # <<>> => running)
    /\ [][/\ (running /\ ~running') => queue' = <<>>
          /\ calls' = calls + 1 =>
                 started' = IF running THEN started ELSE started + 1]_vars

\* A second loop was started after the first one had ended, and a call
\* arrived while it slept.
C35_Witness ==
    /\ started >= 2
    /\ loops = 1
    /\ sleeping
    /\ Len(queue) >= 2

\* The largest cost granted so far (0: none was).
LargestGranted ==
    IF grants = <<>> THEN 0
    ELSE CHOOSE c \in {grants[i].cost : i \in 1..Len(grants)} :
             \A i \in 1..Len(grants) : grants[i].cost <= c

\* C36: a request is granted only when the balance before its debit is >= 0,
\* and the balance is never below minus the largest cost granted so far.
C36_DeficitAtMostOneCost ==
    /\ \A i \in 1..Len(grants) : grants[i].before >= 0
    /\ tokens >= -(LargestGranted * refillMs)

\* The balance is in deficit by the whole cost of the largest request
\* granted, which was granted on a balance of 0 after an earlier grant.
C36_Witness ==
    /\ Len(grants) >= 2
    /\ grants[Len(grants)].before = 0
    /\ grants[Len(grants)].cost = MaxCost
    /\ tokens = -(MaxCost * refillMs)


(***************************************************************************)
(* Realtime channels: close() again, and whose book a watcher gets.        *)
(***************************************************************************)

\* A step in which PolymarketWebSocket.close() is called.
PmCloseCalled ==
    /\ adapter = "polymarket"
    /\ ~pmClosing
    /\ pmClosing' \/ pmCloses' = pmCloses + 1
\* The channel as a completed close() leaves the manager.
PmAsClosed ==
    /\ pmCloses >= 1
    /\ pmAssets = {} /\ pmWire = {}
    /\ \A id \in AssetIds : pmRequests[id] = 0
PmUntouched ==
    UNCHANGED <<pmInit, pmAssets, pmWire, pmRequests, pmCallers, orderBookResolvers,
                tradeResolvers, orderBooks, pmEvents>>
\* A step in which close() of the Baozi socket or exchange is called.
BzCloseCalled ==
    /\ adapter = "baozi"
    /\ \/ \E c \in Closers : bzClosers[c].pc = "idle" /\ bzClosers'[c].pc = "removing"
       \/ /\ bzCloses' = bzCloses + 1
          /\ \A c \in Closers : bzClosers'[c].pc = bzClosers[c].pc
\* The socket as a completed close() leaves it.
BzAsClosed ==
    /\ bzCloses >= 1
    /\ bzSubscriptions = <<>>
    /\ \A k \in OutcomeIds : bzResolvers[k] = <<>>
    /\ \A c \in Closers : bzClosers[c].pc = "idle"
BzUntouched ==
    UNCHANGED <<bzSubscriptions, bzResolvers, bzListeners, bzNextSub, bzCallers,
                bzEvents>>

\* C31: a close() called before any watch call returns at once, with no
\* vendor call issued and nothing changed, and a close() called on a channel
\* as a completed close() left it changes nothing more and completes
\* (BaoziExchange.close, BaoziWebSocket.close, PolymarketWebSocket.close).
C31_CloseSafeAndIdempotent ==
    [][/\ (PmCloseCalled /\ pmCallers[1].pc = "idle") =>
              PmUntouched /\ ~pmClosing' /\ pmCloses' = pmCloses + 1
       /\ (PmCloseCalled /\ PmAsClosed) => PmUntouched
       /\ (pmClosing /\ ~pmClosing') => PmUntouched /\ pmCloses' = pmCloses + 1
       /\ (BzCloseCalled /\ (bzCallers[1].pc = "idle" \/ BzAsClosed)) =>
              /\ BzUntouched
              /\ bzCloses' = bzCloses + 1
              /\ \A c \in Closers : bzClosers'[c].pc = "idle"
       /\ (BzCloseCalled /\ bzCallers[1].pc = "idle") => ~bzWs']_vars

\* close() has completed twice on the Baozi channel: the first one tore down
\* the subscription of a pending watch call, and no watch call was made since.
C31_Witness ==
    /\ adapter = "baozi"
    /\ bzCloses = 2
    /\ bzCallers[1].pc = "rejected"
    /\ bzCallers[2].pc = "idle"
    /\ \A c \in Closers : bzClosers[c].pc = "idle"

\* C32: the order book delivered to a watchOrderBook(outcomeId) caller is
\* priced for that caller's own outcome, also when another outcome of the
\* same market was watched first.
C32_BookOfOwnOutcome ==
    \A w \in Watchers :
        bzCallers[w].pc = "resolved" =>
            bzCallers[w].value.forOutcome = bzCallers[w].outcomeId


(***************************************************************************)
(* PolymarketWebSocket: the window of a subscription, delivered books.     *)
(***************************************************************************)

\* A watchOrderBook call whose addSubscriptions request has been issued and
\* whose promise no event has resolved yet.
AwaitsBook(w) ==
    /\ pmCallers[w].kind = "book"
    /\ pmCallers[w].pc \in {"subscribing", "pending"}

\* C33: every book event for an id which the vendor delivers after a
\* watchOrderBook caller's addSubscriptions request for that id was issued
\* resolves the caller's promise, unless an earlier event already did: also
\* an event delivered before the caller's resolver is enqueued.
C33_NoBookEventLost ==
    [][\A id \in AssetIds, bids \in SnapshotSides, asks \in SnapshotSides :
          HandleBookSnapshot(id, bids, asks) =>
              \A w \in Watchers :
                  (AwaitsBook(w) /\ pmCallers[w].id = id) =>
                      pmCallers'[w].pc = "resolved"]_vars


\* C34: an order book delivered to a watcher is never modified afterwards:
\* whatever deltas and snapshots follow for its id, the book the watcher
\* holds has the bids and asks it was delivered with.
C34_DeliveredBookUnchanged ==
    \A w \in Watchers :
        (pmCallers[w].kind = "book" /\ pmCallers[w].pc = "resolved") =>
            pmCallers[w].held = pmCallers[w].value


\* No two levels of a side have the same price.
DistinctPrices(side) ==
    \A i, j \in 1..Len(side) : side[i].price = side[j].price => i = j

\* C37: with snapshots that hold no two levels of one price on a side, no
\* side of a cached book holds two levels of one price, whatever deltas
\* were applied.
C37_OneLevelPerPrice ==
    \A id \in AssetIds :
        orderBooks[id] # NoBook =>
            /\ DistinctPrices(orderBooks[id].bids)
            /\ DistinctPrices(orderBooks[id].asks)

\* A delta named the price of the only bid of a cached book with another
\* size: the book still has one bid, of the new size.
C37_Witness ==
    /\ pmLast.handler = "price"
    /\ pmEvents = 2
    /\ \E v \in Watchers :
           /\ pmCallers[v].kind = "book" /\ pmCallers[v].resAt = 1
           /\ pmLast.ids = {pmCallers[v].id}
           /\ pmCallers[v].value.bids = <<[price |-> 1, size |-> 1]>>
           /\ orderBooks[pmCallers[v].id].bids = <<[price |-> 1, size |-> 2]>>


(***************************************************************************)
(* Kalshi: what a run of fetchAllActiveMarkets and a call of fetchMarkets  *)
(* leave of the cache.                                                     *)
(***************************************************************************)

\* C38: a run of fetchAllActiveMarkets that fails (a page request or the
\* series-map request raises) writes none of globalMarketCache,
\* globalSeriesMap and lastCacheTime: every step of a call other than its
\* successful return leaves the three as they were, and while no call has
\* returned successfully nothing is stored.
C38_FailedRunStoresNothing ==
    /\ []((\A c \in KxCallIds : kxCalls[c].pc # "done") =>
              /\ globalMarketCache = [s \in Statuses |-> NoList]
              /\ globalSeriesMap = NoSeriesMap
              /\ lastCacheTime = [s \in Statuses |-> 0])
    /\ [][\A c \in KxCallIds :
              (kxCalls'[c] # kxCalls[c] /\ kxCalls'[c].pc # "done") =>
                  UNCHANGED <<globalMarketCache, globalSeriesMap, lastCacheTime>>]_vars

\* A run failed on a page request after it had gathered a page of events,
\* while the cache held the list an earlier call had stored.
C38_Witness ==
    \E c \in KxCallIds :
        /\ kxVersion = "core"
        /\ kxCalls[c].pc = "failed"
        /\ kxCalls[c].primaryFailed
        /\ kxCalls[c].events # <<>>
        /\ globalMarketCache[kxCalls[c].status] # NoList
        /\ globalMarketCache[kxCalls[c].status].by # c


\* C39: fetchMarkets never changes the cached list: whatever calls were
\* made, with whatever sort, offset, limit and query, globalMarketCache[status]
\* holds the markets of the events the run that stored it gathered, in their
\* order.
C39_CachedListUnchanged ==
    \A s \in Statuses :
        globalMarketCache[s] # NoList =>
            globalMarketCache[s].items =
                AllMarketsOf(kxCalls[globalMarketCache[s].by].events, FetchSeriesMap)

\* A call with a sort was served from the list another call had stored, and
\* what it returned is in another order than the cached list.
C39_Witness ==
    \E c \in KxCallIds :
        /\ kxCalls[c].pc = "done" /\ kxCalls[c].hit
        /\ kxCalls[c].path = "list"
        /\ kxParams.sort # "none" /\ kxParams.limit = 0
        /\ globalMarketCache[kxCalls[c].status] # NoList
        /\ globalMarketCache[kxCalls[c].status].by # c
        /\ Len(kxCalls[c].result) = Len(globalMarketCache[kxCalls[c].status].items)
        /\ kxCalls[c].result # globalMarketCache[kxCalls[c].status].items


(***************************************************************************)
(* Race market decoding claims.                                            *)
(***************************************************************************)
\* The reads of the log that returned, of the given op and length.
ReadsOf(op, len, from, to) ==
    {i \in from..to : /\ i <= Len(brLog)
                      /\ brLog[i].op = op /\ brLog[i].len = len
                      /\ brLog[i].outcome = "value"}

\* C40: for every value of the outcome_count byte parseRaceMarket consumes
\* the 10 label slots of 32 bytes and the 10 pool slots of 8 bytes, and
\* returns outcomeLabels and outcomePools of length outcomeCount each, so
\* that mapRaceToUnified finds a pool for every index below outcomeCount.
C40_RaceArraysMatchOutcomeCount ==
    bmAccount.kind = "race" =>
        /\ bmAccount.outcomeCount = brBuf[brLog[7].at + 1]
        /\ Cardinality(ReadsOf("readFixedBytes", 32, 8, 17)) = 10
        /\ Cardinality(ReadsOf("readU64", 0, 18, 27)) = 10
        /\ brLog[28].at - brLog[8].at = 10 * 32 + 10 * 8
        /\ Len(bmAccount.outcomeLabels) = bmAccount.outcomeCount
        /\ Len(bmAccount.outcomePools) = bmAccount.outcomeCount
        /\ \A i \in 1..bmAccount.outcomeCount :
               i \in DOMAIN bmAccount.outcomePools

\* What the decoder does keep: the slots are consumed whatever the byte is,
\* the whole account is read, and the arrays have min(outcomeCount, 10)
\* elements.
RaceSlotsConsumed ==
    bmAccount.kind = "race" =>
        /\ bmAccount.outcomeCount = brBuf[brLog[7].at + 1]
        /\ Cardinality(ReadsOf("readFixedBytes", 32, 8, 17)) = 10
        /\ Cardinality(ReadsOf("readU64", 0, 18, 27)) = 10
        /\ brLog[28].at - brLog[8].at = 10 * 32 + 10 * 8
        /\ brOffset = Len(brBuf)
        /\ Len(bmAccount.outcomeLabels) = Min(bmAccount.outcomeCount, 10)
        /\ Len(bmAccount.outcomePools) = Min(bmAccount.outcomeCount, 10)
        /\ (bmUnified # NoUnified /\ bmAccount.outcomeCount <= 10) =>
               Len(bmUnified.outcomes) = bmAccount.outcomeCount

=============================================================================
